---------------------------- MODULE Spec2Model ----------------------------
(***************************************************************************)
(* A model of the npm-chess engine: the Board, the piece movement rules    *)
(* (engine/pieces), the MoveGenerator (engine/moves) and the Game state    *)
(* machine (engine/game).  Squares are the two-character labels the API    *)
(* uses ("e4"); coordinates are records [row, col] with row 0 = rank 1 and *)
(* col 0 = file a, as in Board.                                            *)
(***************************************************************************)
EXTENDS Integers, Sequences, FiniteSets, TLC

VARIABLES
  board,            \* Game.board: board[row][col], a piece or NoPiece
  currentTurn,      \* Game.currentTurn
  moveHistory,      \* Game.moveHistory: sequence of Move records
  castlingRights,   \* Game.castlingRights
  enPassantSquare,  \* Game.enPassantSquare: a square label or NoSquare
  halfMoveClock,    \* Game.halfMoveClock
  fullMoveNumber,   \* Game.fullMoveNumber
  gameStatus,       \* Game.gameStatus
  positionHistory,  \* Game.positionHistory: position key -> count
  lastCall,         \* the last API call, its input and what it returned
  trail,            \* the Game's fields before each move still in moveHistory
  setup,            \* which position was set up last: 0 = start, n = Fixtures[n]
  calls             \* API calls made since the position was set up

gameVars == <<board, currentTurn, moveHistory, castlingRights, enPassantSquare,
              halfMoveClock, fullMoveNumber, gameStatus, positionHistory>>
vars == <<board, currentTurn, moveHistory, castlingRights, enPassantSquare,
          halfMoveClock, fullMoveNumber, gameStatus, positionHistory,
          lastCall, trail, setup, calls>>

----------------------------------------------------------------------------
(* Values *)

NoPiece == [type |-> "none", color |-> "none"]
NoSquare == "-"
NoCoords == [row |-> -1, col |-> -1]

Piece(t, c) == [type |-> t, color |-> c]
Coords(r, c) == [row |-> r, col |-> c]

Colors == {"white", "black"}
Opponent(color) == IF color = "white" THEN "black" ELSE "white"

Files == <<"a", "b", "c", "d", "e", "f", "g", "h">>
Ranks == <<"1", "2", "3", "4", "5", "6", "7", "8">>

(* Board.coordsToSquare *)
SquareTable == [r \in 0..7 |-> [c \in 0..7 |-> Files[c + 1] \o Ranks[r + 1]]]
Squares == {SquareTable[r][c] : r \in 0..7, c \in 0..7}
CoordsToSquare(row, col) ==
  IF row < 0 \/ row > 7 \/ col < 0 \/ col > 7 THEN NoSquare
  ELSE SquareTable[row][col]

(* Board.squareToCoords: the label's file letter and rank digit, or null *)
CoordsTable ==
  [sq \in Squares |->
     CHOOSE rc \in {Coords(r, c) : r \in 0..7, c \in 0..7} :
        SquareTable[rc.row][rc.col] = sq]
SquareToCoords(square) ==
  IF square \in Squares THEN CoordsTable[square] ELSE NoCoords

IsValidSquare(square) == SquareToCoords(square) # NoCoords
IsValidCoords(row, col) == row >= 0 /\ row <= 7 /\ col >= 0 /\ col <= 7

(* square.charAt(0), parseInt(square.charAt(1)) *)
FileChar(square) == Files[SquareToCoords(square).col + 1]
RankNumber(square) == SquareToCoords(square).row + 1
SquareOf(fileChar, rankNumber) ==
  CoordsToSquare(rankNumber - 1,
                 CHOOSE c \in 0..7 : Files[c + 1] = fileChar)

----------------------------------------------------------------------------
(* Board *)

EmptyRow == [c \in 0..7 |-> NoPiece]
EmptyBoard == [r \in 0..7 |-> EmptyRow]

BackRank == <<"rook", "knight", "bishop", "queen", "king", "bishop", "knight", "rook">>

StartingPosition ==
  [r \in 0..7 |-> [c \in 0..7 |->
     CASE r = 0 -> Piece(BackRank[c + 1], "white")
       [] r = 1 -> Piece("pawn", "white")
       [] r = 6 -> Piece("pawn", "black")
       [] r = 7 -> Piece(BackRank[c + 1], "black")
       [] OTHER -> NoPiece]]

GetPieceAt(b, row, col) ==
  IF row < 0 \/ row > 7 \/ col < 0 \/ col > 7 THEN NoPiece ELSE b[row][col]

(* Board.getPiece once squareToCoords has answered *)
GetPieceOn(b, coords) ==
  IF coords = NoCoords THEN NoPiece ELSE b[coords.row][coords.col]

GetPiece(b, square) == GetPieceOn(b, SquareToCoords(square))

SetPieceAt(b, row, col, piece) ==
  IF row < 0 \/ row > 7 \/ col < 0 \/ col > 7 THEN b
  ELSE [b EXCEPT ![row][col] = piece]

(* Board.setPiece once squareToCoords has answered *)
SetPieceOn(b, coords, piece) ==
  IF coords = NoCoords THEN b ELSE [b EXCEPT ![coords.row][coords.col] = piece]

SetPiece(b, square, piece) == SetPieceOn(b, SquareToCoords(square), piece)

(* Board.movePiece once squareToCoords has answered for both squares *)
MovePieceBetween(b, fromCoords, toCoords) ==
  IF fromCoords = NoCoords \/ toCoords = NoCoords THEN b
  ELSE SetPieceAt(SetPieceAt(b, toCoords.row, toCoords.col,
                             GetPieceAt(b, fromCoords.row, fromCoords.col)),
                  fromCoords.row, fromCoords.col, NoPiece)

MovePiece(b, from, to) ==
  MovePieceBetween(b, SquareToCoords(from), SquareToCoords(to))

IsEmpty(b, square) == GetPiece(b, square) = NoPiece

(* Row-major scan order of Board.findPieces and Board.findKing *)
ScanSquares == [i \in 1..64 |-> CoordsToSquare((i - 1) \div 8, (i - 1) % 8)]

(* The squares found, in scan order, with their pieces *)
PiecesOn(b, found) ==
  [i \in 1..Len(found) |-> [square |-> found[i], piece |-> GetPiece(b, found[i])]]

FindPieces(b, color) ==
  PiecesOn(b, SelectSeq(ScanSquares, LAMBDA sq : GetPiece(b, sq).color = color))

(* The first square found, or none *)
FirstFound(found) == IF Len(found) = 0 THEN NoSquare ELSE found[1]

FindKing(b, color) ==
  FirstFound(SelectSeq(ScanSquares,
                       LAMBDA sq : GetPiece(b, sq) = Piece("king", color)))

----------------------------------------------------------------------------
(* engine/pieces: movement patterns *)

ORTHOGONAL == << <<-1, 0>>, <<1, 0>>, <<0, -1>>, <<0, 1>> >>
DIAGONAL == << <<-1, -1>>, <<-1, 1>>, <<1, -1>>, <<1, 1>> >>
KNIGHT == << <<-2, -1>>, <<-2, 1>>, <<-1, -2>>, <<-1, 2>>,
             <<1, -2>>, <<1, 2>>, <<2, -1>>, <<2, 1>> >>
ALL == << <<-1, 0>>, <<1, 0>>, <<0, -1>>, <<0, 1>>,
          <<-1, -1>>, <<-1, 1>>, <<1, -1>>, <<1, 1>> >>

(* Pawn moves without the advance of two squares *)
GetPawnMovesSingleStep(b, from, color) ==
  LET direction == IF color = "white" THEN 1 ELSE -1
      row == from.row
      col == from.col
      Capture(offset) ==
        LET t == GetPieceAt(b, row + direction, col + offset)
        IN IF IsValidCoords(row + direction, col + offset)
              /\ t # NoPiece /\ t.color # color
           THEN <<Coords(row + direction, col + offset)>>
           ELSE <<>>
  IN (IF IsValidCoords(row + direction, col)
         /\ GetPieceAt(b, row + direction, col) = NoPiece
      THEN <<Coords(row + direction, col)>> ELSE <<>>)
     \o Capture(-1) \o Capture(1)

GetPawnMoves(b, from, color) ==
  LET direction == IF color = "white" THEN 1 ELSE -1
      startRank == IF color = "white" THEN 1 ELSE 6
      row == from.row
      col == from.col
      oneOk == IsValidCoords(row + direction, col)
               /\ GetPieceAt(b, row + direction, col) = NoPiece
      twoOk == oneOk /\ row = startRank
               /\ IsValidCoords(row + direction * 2, col)
               /\ GetPieceAt(b, row + direction * 2, col) = NoPiece
      Capture(offset) ==
        LET t == GetPieceAt(b, row + direction, col + offset)
        IN IF IsValidCoords(row + direction, col + offset)
              /\ t # NoPiece /\ t.color # color
           THEN <<Coords(row + direction, col + offset)>>
           ELSE <<>>
  IN (IF oneOk THEN <<Coords(row + direction, col)>> ELSE <<>>)
     \o (IF twoOk THEN <<Coords(row + direction * 2, col)>> ELSE <<>>)
     \o Capture(-1) \o Capture(1)

RECURSIVE SlideRay(_, _, _, _, _, _)
SlideRay(b, currentRow, currentCol, dRow, dCol, color) ==
  IF ~IsValidCoords(currentRow, currentCol) THEN <<>>
  ELSE LET targetPiece == GetPieceAt(b, currentRow, currentCol)
       IN IF targetPiece = NoPiece
          THEN <<Coords(currentRow, currentCol)>>
               \o SlideRay(b, currentRow + dRow, currentCol + dCol, dRow, dCol, color)
          ELSE IF targetPiece.color # color
               THEN <<Coords(currentRow, currentCol)>>
               ELSE <<>>

RECURSIVE GetSlidingMovesFrom(_, _, _, _, _)
GetSlidingMovesFrom(b, from, color, directions, i) ==
  IF i > Len(directions) THEN <<>>
  ELSE SlideRay(b, from.row + directions[i][1], from.col + directions[i][2],
                directions[i][1], directions[i][2], color)
       \o GetSlidingMovesFrom(b, from, color, directions, i + 1)

GetSlidingMoves(b, from, color, directions) ==
  GetSlidingMovesFrom(b, from, color, directions, 1)

RECURSIVE GetJumpMovesFrom(_, _, _, _, _)
GetJumpMovesFrom(b, from, color, directions, i) ==
  IF i > Len(directions) THEN <<>>
  ELSE LET targetRow == from.row + directions[i][1]
           targetCol == from.col + directions[i][2]
           here == IF IsValidCoords(targetRow, targetCol)
                      /\ GetPieceAt(b, targetRow, targetCol).color # color
                   THEN <<Coords(targetRow, targetCol)>>
                   ELSE <<>>
       IN here \o GetJumpMovesFrom(b, from, color, directions, i + 1)

GetJumpMoves(b, from, color, directions) ==
  GetJumpMovesFrom(b, from, color, directions, 1)

GetPseudoLegalMoves(b, from, pieceType, color) ==
  CASE pieceType = "pawn" -> GetPawnMoves(b, from, color)
    [] pieceType = "knight" -> GetJumpMoves(b, from, color, KNIGHT)
    [] pieceType = "bishop" -> GetSlidingMoves(b, from, color, DIAGONAL)
    [] pieceType = "rook" -> GetSlidingMoves(b, from, color, ORTHOGONAL)
    [] pieceType = "queen" -> GetSlidingMoves(b, from, color, ALL)
    [] pieceType = "king" -> GetJumpMoves(b, from, color, ALL)
    [] OTHER -> <<>>

(* The first piece met walking from (row, col) in direction (dRow, dCol) *)
RECURSIVE FirstOnRay(_, _, _, _, _)
FirstOnRay(b, currentRow, currentCol, dRow, dCol) ==
  IF ~IsValidCoords(currentRow, currentCol) THEN NoPiece
  ELSE LET piece == GetPieceAt(b, currentRow, currentCol)
       IN IF piece # NoPiece THEN piece
          ELSE FirstOnRay(b, currentRow + dRow, currentCol + dCol, dRow, dCol)

(* The piece is of the attacking colour and of one of the types *)
IsAttacker(piece, types, attackingColor) ==
  piece.color = attackingColor /\ piece.type \in types

IsSquareUnderAttack(b, square, attackingColor) ==
  \/ \E offset \in {-1, 1} :
        IsAttacker(GetPieceAt(b, square.row - (IF attackingColor = "white" THEN 1 ELSE -1),
                              square.col + offset),
                   {"pawn"}, attackingColor)
  \/ \E i \in 1..8 :
        IsAttacker(GetPieceAt(b, square.row + KNIGHT[i][1], square.col + KNIGHT[i][2]),
                   {"knight"}, attackingColor)
  \/ \E i \in 1..8 :
        IsAttacker(GetPieceAt(b, square.row + ALL[i][1], square.col + ALL[i][2]),
                   {"king"}, attackingColor)
  \/ \E i \in 1..4 :
        IsAttacker(FirstOnRay(b, square.row + DIAGONAL[i][1], square.col + DIAGONAL[i][2],
                              DIAGONAL[i][1], DIAGONAL[i][2]),
                   {"bishop", "queen"}, attackingColor)
  \/ \E i \in 1..4 :
        IsAttacker(FirstOnRay(b, square.row + ORTHOGONAL[i][1],
                              square.col + ORTHOGONAL[i][2],
                              ORTHOGONAL[i][1], ORTHOGONAL[i][2]),
                   {"rook", "queen"}, attackingColor)

(* isKingInCheck once findKing has answered *)
IsKingAttackedOn(b, kingSquare, kingColor) ==
  IF kingSquare = NoSquare THEN FALSE
  ELSE IsSquareUnderAttack(b, SquareToCoords(kingSquare), Opponent(kingColor))

IsKingInCheck(b, kingColor) == IsKingAttackedOn(b, FindKing(b, kingColor), kingColor)

----------------------------------------------------------------------------
(* engine/moves: MoveGenerator(board, castlingRights, enPassantSquare) *)

(* A Move without its notation fields (san, check, checkmate), which only *)
(* Game.move sets, on the move it has executed                             *)
MoveRec(from, to, piece, captured, promotion, enPassant, castling) ==
  [from |-> from, to |-> to, piece |-> piece, captured |-> captured,
   promotion |-> promotion, enPassant |-> enPassant, castling |-> castling]

NoPromotion == "none"
NoCastling == "none"
PromotionTypes == <<"queen", "rook", "bishop", "knight">>

IsPawnPromotionRank(rank, color) ==
  (color = "white" /\ rank = 7) \/ (color = "black" /\ rank = 0)

IsPawnPromotionRequired(b, from, to, color) ==
  LET piece == GetPiece(b, from)
      toCoords == SquareToCoords(to)
  IN IF piece = NoPiece \/ piece.type # "pawn" THEN FALSE
     ELSE IF toCoords = NoCoords THEN FALSE
     ELSE IsPawnPromotionRank(toCoords.row, color)

(* The move is made on a clone with Board.movePiece(from, to) only *)
IsMoveLegal(b, from, to, color) ==
  ~IsKingInCheck(MovePiece(b, from, to), color)

GetEnPassantMove(b, ep, from, color) ==
  IF ep = NoSquare THEN <<>>
  ELSE
    LET fromCoords == SquareToCoords(from)
        enPassantCoords == SquareToCoords(ep)
        direction == IF color = "white" THEN 1 ELSE -1
    IN IF fromCoords = NoCoords \/ enPassantCoords = NoCoords THEN <<>>
       ELSE
         LET dc == enPassantCoords.col - fromCoords.col
             canCapture == enPassantCoords.row = fromCoords.row + direction
                           /\ (dc = 1 \/ dc = -1)
             capturedPawnRank == IF color = "white" THEN enPassantCoords.row - 1
                                 ELSE enPassantCoords.row + 1
             capturedPawnSquare == CoordsToSquare(capturedPawnRank, enPassantCoords.col)
             capturedPawn == IF capturedPawnSquare # NoSquare
                             THEN GetPiece(b, capturedPawnSquare) ELSE NoPiece
         IN IF ~canCapture THEN <<>>
            ELSE IF ~IsMoveLegal(b, from, ep, color) THEN <<>>
            ELSE <<MoveRec(from, ep, Piece("pawn", color), capturedPawn,
                           NoPromotion, TRUE, NoCastling)>>

HomeRank(color) == IF color = "white" THEN 1 ELSE 8

(* A kingside test that does not look at the square the king crosses *)
CanCastleKingsideThroughCheck(b, cr, color) ==
  LET hasRights == IF color = "white" THEN cr.whiteKingside ELSE cr.blackKingside
      rank == HomeRank(color)
      king == GetPiece(b, SquareOf("e", rank))
      rook == GetPiece(b, SquareOf("h", rank))
      opponentColor == Opponent(color)
  IN /\ hasRights
     /\ king.type = "king" /\ king.color = color
     /\ rook.type = "rook" /\ rook.color = color
     /\ IsEmpty(b, SquareOf("f", rank)) /\ IsEmpty(b, SquareOf("g", rank))
     /\ ~IsKingInCheck(b, color)
     /\ ~IsSquareUnderAttack(b, SquareToCoords(SquareOf("g", rank)), opponentColor)

CanCastleKingside(b, cr, color) ==
  LET hasRights == IF color = "white" THEN cr.whiteKingside ELSE cr.blackKingside
      rank == HomeRank(color)
      king == GetPiece(b, SquareOf("e", rank))
      rook == GetPiece(b, SquareOf("h", rank))
      opponentColor == Opponent(color)
  IN /\ hasRights
     /\ king.type = "king" /\ king.color = color
     /\ rook.type = "rook" /\ rook.color = color
     /\ IsEmpty(b, SquareOf("f", rank)) /\ IsEmpty(b, SquareOf("g", rank))
     /\ ~IsKingInCheck(b, color)
     /\ ~IsSquareUnderAttack(b, SquareToCoords(SquareOf("f", rank)), opponentColor)
     /\ ~IsSquareUnderAttack(b, SquareToCoords(SquareOf("g", rank)), opponentColor)

CanCastleQueenside(b, cr, color) ==
  LET hasRights == IF color = "white" THEN cr.whiteQueenside ELSE cr.blackQueenside
      rank == HomeRank(color)
      king == GetPiece(b, SquareOf("e", rank))
      rook == GetPiece(b, SquareOf("a", rank))
      opponentColor == Opponent(color)
  IN /\ hasRights
     /\ king.type = "king" /\ king.color = color
     /\ rook.type = "rook" /\ rook.color = color
     /\ IsEmpty(b, SquareOf("b", rank)) /\ IsEmpty(b, SquareOf("c", rank))
     /\ IsEmpty(b, SquareOf("d", rank))
     /\ ~IsKingInCheck(b, color)
     /\ ~IsSquareUnderAttack(b, SquareToCoords(SquareOf("c", rank)), opponentColor)
     /\ ~IsSquareUnderAttack(b, SquareToCoords(SquareOf("d", rank)), opponentColor)

GetCastlingMoves(b, cr, color) ==
  LET rank == HomeRank(color)
  IN (IF CanCastleKingside(b, cr, color)
      THEN <<MoveRec(SquareOf("e", rank), SquareOf("g", rank), Piece("king", color),
                     NoPiece, NoPromotion, FALSE, "kingside")>>
      ELSE <<>>)
     \o (IF CanCastleQueenside(b, cr, color)
         THEN <<MoveRec(SquareOf("e", rank), SquareOf("c", rank), Piece("king", color),
                        NoPiece, NoPromotion, FALSE, "queenside")>>
         ELSE <<>>)

(* A loop body that offers a pawn reaching the far rank the queen only *)
MovesToQueenOnly(b, from, piece, color, toCoords, to) ==
  IF to = NoSquare THEN <<>>
  ELSE IF ~IsMoveLegal(b, from, to, color) THEN <<>>
  ELSE IF piece.type = "pawn" /\ IsPawnPromotionRank(toCoords.row, color)
  THEN <<MoveRec(from, to, piece, GetPiece(b, to), "queen", FALSE, NoCastling)>>
  ELSE <<MoveRec(from, to, piece, GetPiece(b, to), NoPromotion, FALSE, NoCastling)>>

(* The body of the loop of generateLegalMovesFrom for one target *)
MovesTo(b, from, piece, color, toCoords, to) ==
  IF to = NoSquare THEN <<>>
  ELSE IF ~IsMoveLegal(b, from, to, color) THEN <<>>
  ELSE IF piece.type = "pawn" /\ IsPawnPromotionRank(toCoords.row, color)
  THEN [k \in 1..4 |-> MoveRec(from, to, piece, GetPiece(b, to), PromotionTypes[k],
                               FALSE, NoCastling)]
  ELSE <<MoveRec(from, to, piece, GetPiece(b, to), NoPromotion, FALSE, NoCastling)>>

(* The loop of generateLegalMovesFrom over the pseudo-legal targets *)
RECURSIVE FilterPseudoLegal(_, _, _, _, _, _)
FilterPseudoLegal(b, from, piece, color, pseudoLegalMoves, i) ==
  IF i > Len(pseudoLegalMoves) THEN <<>>
  ELSE MovesTo(b, from, piece, color, pseudoLegalMoves[i],
               CoordsToSquare(pseudoLegalMoves[i].row, pseudoLegalMoves[i].col))
       \o FilterPseudoLegal(b, from, piece, color, pseudoLegalMoves, i + 1)

(* generateLegalMovesFrom once getPiece and squareToCoords have answered *)
MovesOfPiece(b, cr, ep, from, color, piece, fromCoords) ==
  IF piece = NoPiece \/ piece.color # color THEN <<>>
  ELSE IF fromCoords = NoCoords THEN <<>>
  ELSE
    FilterPseudoLegal(b, from, piece, color,
                      GetPseudoLegalMoves(b, fromCoords, piece.type, color), 1)
    \o (IF piece.type = "pawn" /\ ep # NoSquare
        THEN GetEnPassantMove(b, ep, from, color) ELSE <<>>)
    \o (IF piece.type = "king" THEN GetCastlingMoves(b, cr, color) ELSE <<>>)

GenerateLegalMovesFrom(b, cr, ep, from, color) ==
  MovesOfPiece(b, cr, ep, from, color, GetPiece(b, from), SquareToCoords(from))

RECURSIVE GenerateLegalMovesOver(_, _, _, _, _, _)
GenerateLegalMovesOver(b, cr, ep, color, pieces, i) ==
  IF i > Len(pieces) THEN <<>>
  ELSE GenerateLegalMovesFrom(b, cr, ep, pieces[i].square, color)
       \o GenerateLegalMovesOver(b, cr, ep, color, pieces, i + 1)

GenerateLegalMoves(b, cr, ep, color) ==
  GenerateLegalMovesOver(b, cr, ep, color, FindPieces(b, color), 1)

(* legalMoves.find: some listed move has the squares and, when a piece   *)
(* is asked for, the promotion of the request                              *)
MatchingMove(legalMoves, from, to, promotion) ==
  \E i \in 1..Len(legalMoves) :
     /\ legalMoves[i].from = from /\ legalMoves[i].to = to
     /\ (promotion # NoPromotion => legalMoves[i].promotion = promotion)

(* A validation that lets a promotion go through with the piece left out *)
ValidateMoveAnyPromotion(b, cr, ep, move, color) ==
  IF ~IsValidSquare(move.from) \/ ~IsValidSquare(move.to) THEN "Invalid square"
  ELSE IF GetPiece(b, move.from) = NoPiece THEN "No piece at starting square"
  ELSE IF GetPiece(b, move.from).color # color THEN "Not your piece"
  ELSE IF move.from = move.to THEN "Cannot move to the same square"
  ELSE IF ~MatchingMove(GenerateLegalMovesFrom(b, cr, ep, move.from, color),
                        move.from, move.to, move.promotion)
  THEN "Illegal move"
  ELSE "valid"

(* validateMove: "valid", or the reason the move is rejected.  A move     *)
(* option is [from, to, promotion], promotion = NoPromotion when not given *)
ValidateMove(b, cr, ep, move, color) ==
  IF ~IsValidSquare(move.from) \/ ~IsValidSquare(move.to) THEN "Invalid square"
  ELSE IF GetPiece(b, move.from) = NoPiece THEN "No piece at starting square"
  ELSE IF GetPiece(b, move.from).color # color THEN "Not your piece"
  ELSE IF move.from = move.to THEN "Cannot move to the same square"
  ELSE IF ~MatchingMove(GenerateLegalMovesFrom(b, cr, ep, move.from, color),
                        move.from, move.to, move.promotion)
  THEN "Illegal move"
  ELSE IF /\ GetPiece(b, move.from).type = "pawn"
          /\ IsPawnPromotionRequired(b, move.from, move.to, color)
          /\ move.promotion = NoPromotion
  THEN "Pawn promotion required"
  ELSE "valid"

IsCheckmate(b, cr, ep, color) ==
  IF ~IsKingInCheck(b, color) THEN FALSE
  ELSE Len(GenerateLegalMoves(b, cr, ep, color)) = 0

IsStalemate(b, cr, ep, color) ==
  IF IsKingInCheck(b, color) THEN FALSE
  ELSE Len(GenerateLegalMoves(b, cr, ep, color)) = 0

----------------------------------------------------------------------------
(* engine/game: the Game.  A game value g is the record of its fields;     *)
(* every method maps the game it is called on to the game it leaves.  The  *)
(* MoveGenerator is rebuilt from board, castlingRights and enPassantSquare *)
(* at the end of every mutation, so it always reads the current fields.    *)

AllCastlingRights ==
  [whiteKingside |-> TRUE, whiteQueenside |-> TRUE,
   blackKingside |-> TRUE, blackQueenside |-> TRUE]

NoMove == MoveRec(NoSquare, NoSquare, NoPiece, NoPiece, NoPromotion, FALSE, NoCastling)

GetPositionKey(g) ==
  <<g.board, g.currentTurn, g.castlingRights, g.enPassantSquare>>

Repetitions(table, key) == IF key \in DOMAIN table THEN table[key] ELSE 0

RecordPosition(g) ==
  LET key == GetPositionKey(g)
      count == Repetitions(g.positionHistory, key)
  IN [g EXCEPT !.positionHistory =
        [k \in DOMAIN g.positionHistory \cup {key} |->
           IF k = key THEN count + 1 ELSE g.positionHistory[k]]]

EmptyTable == [k \in {} |-> 0]

(* Game.isInsufficientMaterial once the pieces have been collected *)
IsInsufficientAmong(pieces, nonKings, bishops) ==
  IF Len(pieces) = 2 THEN TRUE
  ELSE IF Len(pieces) = 3 /\ Len(nonKings) = 1
  THEN nonKings[1].piece.type \in {"bishop", "knight"}
  ELSE IF Len(pieces) = 4 /\ Len(bishops) = 2
  THEN (SquareToCoords(bishops[1].square).row + SquareToCoords(bishops[1].square).col) % 2
       = (SquareToCoords(bishops[2].square).row + SquareToCoords(bishops[2].square).col) % 2
  ELSE FALSE

(* The pieces, those that are not kings, and the bishops *)
IsInsufficientFor(pieces) ==
  IsInsufficientAmong(pieces,
                      SelectSeq(pieces, LAMBDA p : p.piece.type # "king"),
                      SelectSeq(pieces, LAMBDA p : p.piece.type = "bishop"))

IsInsufficientMaterial(g) ==
  IsInsufficientFor(FindPieces(g.board, "white") \o FindPieces(g.board, "black"))

IsInCheck(g) == IsKingInCheck(g.board, g.currentTurn)

FiftyMoveLimit == 100

(* A status computation that looks at check before the draws *)
UpdateGameStatusCheckFirst(g) ==
  [g EXCEPT !.gameStatus =
     IF IsCheckmate(g.board, g.castlingRights, g.enPassantSquare, g.currentTurn)
     THEN "checkmate"
     ELSE IF IsStalemate(g.board, g.castlingRights, g.enPassantSquare, g.currentTurn)
     THEN "stalemate"
     ELSE IF IsInCheck(g) THEN "check"
     ELSE IF g.halfMoveClock >= FiftyMoveLimit THEN "fifty_move_rule"
     ELSE IF Repetitions(g.positionHistory, GetPositionKey(g)) >= 3
     THEN "threefold_repetition"
     ELSE IF IsInsufficientMaterial(g) THEN "insufficient_material"
     ELSE "active"]

UpdateGameStatus(g) ==
  [g EXCEPT !.gameStatus =
     IF IsCheckmate(g.board, g.castlingRights, g.enPassantSquare, g.currentTurn)
     THEN "checkmate"
     ELSE IF IsStalemate(g.board, g.castlingRights, g.enPassantSquare, g.currentTurn)
     THEN "stalemate"
     ELSE IF g.halfMoveClock >= FiftyMoveLimit THEN "fifty_move_rule"
     ELSE IF Repetitions(g.positionHistory, GetPositionKey(g)) >= 3
     THEN "threefold_repetition"
     ELSE IF IsInsufficientMaterial(g) THEN "insufficient_material"
     ELSE IF IsInCheck(g) THEN "check"
     ELSE "active"]

IsGameOver(g) == g.gameStatus # "active" /\ g.gameStatus # "check"

IsEnPassantCapture(g, from, to) ==
  GetPiece(g.board, from).type = "pawn"
  /\ to = g.enPassantSquare /\ g.enPassantSquare # NoSquare

IsCastlingMove(g, from, to) ==
  IF GetPiece(g.board, from).type # "king" THEN NoCastling
  ELSE IF FileChar(from) = "e" /\ FileChar(to) = "g" THEN "kingside"
  ELSE IF FileChar(from) = "e" /\ FileChar(to) = "c" THEN "queenside"
  ELSE NoCastling

(* The rook's part of executeCastling *)
CastleRook(b, castling, rank) ==
  IF castling = "kingside"
  THEN MovePiece(b, SquareOf("h", rank), SquareOf("f", rank))
  ELSE MovePiece(b, SquareOf("a", rank), SquareOf("d", rank))

ExecuteCastling(b, move) ==
  CastleRook(MovePiece(b, move.from, move.to), move.castling,
             HomeRank(move.piece.color))

(* executeMove, en passant: the captured pawn is taken off *)
RemoveEnPassantPawn(b, move) ==
  IF move.enPassant
  THEN SetPiece(b, SquareOf(FileChar(move.to),
                            IF move.piece.color = "white" THEN 5 ELSE 4),
                NoPiece)
  ELSE b

(* executeMove, castling, promotion or plain move *)
MoveOnBoard(b, move) ==
  IF move.castling # NoCastling THEN ExecuteCastling(b, move)
  ELSE IF move.promotion # NoPromotion
  THEN SetPiece(SetPiece(b, move.to, Piece(move.promotion, move.piece.color)),
                move.from, NoPiece)
  ELSE MovePiece(b, move.from, move.to)

(* An executeMove that empties the target square for an en passant capture *)
ExecuteMoveTakesTarget(b, move) ==
  MoveOnBoard(IF move.enPassant THEN SetPiece(b, move.to, NoPiece) ELSE b, move)

ExecuteMove(b, move) == MoveOnBoard(RemoveEnPassantPawn(b, move), move)

UndoCastling(b, move) ==
  LET rank == HomeRank(move.piece.color)
  IN IF move.castling = "kingside"
     THEN MovePiece(b, SquareOf("f", rank), SquareOf("h", rank))
     ELSE MovePiece(b, SquareOf("d", rank), SquareOf("a", rank))

(* An update of the castling rights that ignores captured rooks *)
UpdateCastlingRightsMoverOnly(cr, move) ==
  LET afterKing ==
        IF move.piece.type = "king"
        THEN IF move.piece.color = "white"
             THEN [cr EXCEPT !.whiteKingside = FALSE, !.whiteQueenside = FALSE]
             ELSE [cr EXCEPT !.blackKingside = FALSE, !.blackQueenside = FALSE]
        ELSE cr
      Clear(r, square) ==
        [r EXCEPT !.whiteQueenside = IF square = "a1" THEN FALSE ELSE @,
                  !.whiteKingside = IF square = "h1" THEN FALSE ELSE @,
                  !.blackQueenside = IF square = "a8" THEN FALSE ELSE @,
                  !.blackKingside = IF square = "h8" THEN FALSE ELSE @]
  IN IF move.piece.type = "rook" THEN Clear(afterKing, move.from) ELSE afterKing

UpdateCastlingRights(cr, move) ==
  LET afterKing ==
        IF move.piece.type = "king"
        THEN IF move.piece.color = "white"
             THEN [cr EXCEPT !.whiteKingside = FALSE, !.whiteQueenside = FALSE]
             ELSE [cr EXCEPT !.blackKingside = FALSE, !.blackQueenside = FALSE]
        ELSE cr
      Clear(r, square) ==
        [r EXCEPT !.whiteQueenside = IF square = "a1" THEN FALSE ELSE @,
                  !.whiteKingside = IF square = "h1" THEN FALSE ELSE @,
                  !.blackQueenside = IF square = "a8" THEN FALSE ELSE @,
                  !.blackKingside = IF square = "h8" THEN FALSE ELSE @]
      afterRook == IF move.piece.type = "rook" THEN Clear(afterKing, move.from)
                   ELSE afterKing
  IN IF move.captured.type = "rook" THEN Clear(afterRook, move.to) ELSE afterRook

(* A state update whose half-move clock is reset by pawn moves only *)
UpdateGameStateClockOnPawnOnly(g, move) ==
  LET fromRank == RankNumber(move.from)
      toRank == RankNumber(move.to)
      targetRank == IF move.piece.color = "white" THEN fromRank + 1 ELSE fromRank - 1
      turn == Opponent(g.currentTurn)
  IN [g EXCEPT
        !.halfMoveClock = IF move.piece.type = "pawn" THEN 0 ELSE @ + 1,
        !.enPassantSquare =
           IF move.piece.type = "pawn" /\ (toRank - fromRank = 2 \/ fromRank - toRank = 2)
           THEN SquareOf(FileChar(move.from), targetRank)
           ELSE NoSquare,
        !.castlingRights = UpdateCastlingRights(@, move),
        !.currentTurn = turn,
        !.fullMoveNumber = IF turn = "white" THEN @ + 1 ELSE @]

(* A state update that clears the en passant target only on pawn moves:   *)
(* a piece move after a double advance leaves the target standing         *)
UpdateGameStateKeepsTarget(g, move) ==
  LET fromRank == RankNumber(move.from)
      toRank == RankNumber(move.to)
      targetRank == IF move.piece.color = "white" THEN fromRank + 1 ELSE fromRank - 1
      turn == Opponent(g.currentTurn)
  IN [g EXCEPT
        !.halfMoveClock = IF move.piece.type = "pawn" \/ move.captured # NoPiece
                          THEN 0 ELSE @ + 1,
        !.enPassantSquare =
           IF move.piece.type = "pawn"
           THEN (IF toRank - fromRank = 2 \/ fromRank - toRank = 2
                 THEN SquareOf(FileChar(move.from), targetRank) ELSE NoSquare)
           ELSE @,
        !.castlingRights = UpdateCastlingRights(@, move),
        !.currentTurn = turn,
        !.fullMoveNumber = IF turn = "white" THEN @ + 1 ELSE @]

UpdateGameState(g, move) ==
  LET fromRank == RankNumber(move.from)
      toRank == RankNumber(move.to)
      targetRank == IF move.piece.color = "white" THEN fromRank + 1 ELSE fromRank - 1
      turn == Opponent(g.currentTurn)
  IN [g EXCEPT
        !.halfMoveClock = IF move.piece.type = "pawn" \/ move.captured # NoPiece
                          THEN 0 ELSE @ + 1,
        !.enPassantSquare =
           IF move.piece.type = "pawn" /\ (toRank - fromRank = 2 \/ fromRank - toRank = 2)
           THEN SquareOf(FileChar(move.from), targetRank)
           ELSE NoSquare,
        !.castlingRights = UpdateCastlingRights(@, move),
        !.currentTurn = turn,
        !.fullMoveNumber = IF turn = "white" THEN @ + 1 ELSE @]

(* A constructor that leaves the repetition table empty: the start        *)
(* position would then not count as an occurrence                          *)
NewGameUnrecorded ==
  [board |-> StartingPosition, currentTurn |-> "white", moveHistory |-> <<>>,
   castlingRights |-> AllCastlingRights, enPassantSquare |-> NoSquare,
   halfMoveClock |-> 0, fullMoveNumber |-> 1, gameStatus |-> "active",
   positionHistory |-> EmptyTable]

NewGame ==
  RecordPosition(
    [board |-> StartingPosition, currentTurn |-> "white", moveHistory |-> <<>>,
     castlingRights |-> AllCastlingRights, enPassantSquare |-> NoSquare,
     halfMoveClock |-> 0, fullMoveNumber |-> 1, gameStatus |-> "active",
     positionHistory |-> EmptyTable])

(* A move handed to Game.move as its options *)
OptionOf(move) == [from |-> move.from, to |-> move.to, promotion |-> move.promotion]

(* The Move object Game.move builds for a validated request *)
BuildMove(g, moveOptions) ==
  MoveRec(moveOptions.from, moveOptions.to, GetPiece(g.board, moveOptions.from),
          GetPiece(g.board, moveOptions.to), moveOptions.promotion,
          IsEnPassantCapture(g, moveOptions.from, moveOptions.to),
          IsCastlingMove(g, moveOptions.from, moveOptions.to))

(* Game.move from executeMove on: the move is executed, the state        *)
(* updated, the position recorded, the status recomputed and the move      *)
(* pushed on the history                                                   *)
ApplyMove(g, move) ==
  [UpdateGameStatus(RecordPosition(
     UpdateGameState([g EXCEPT !.board = ExecuteMove(@, move)], move)))
   EXCEPT !.moveHistory = Append(@, move)]

(* Game.move once validateMove has answered *)
MoveValidated(g, move, validation) ==
  IF validation # "valid" \/ move.piece = NoPiece
  THEN [game |-> g, result |-> NoMove, error |-> validation]
  ELSE [game |-> ApplyMove(g, move), result |-> move, error |-> validation]

(* Game.move: the game it leaves and what it returns (NoMove for null) *)
GameMove(g, moveOptions) ==
  MoveValidated(g, BuildMove(g, moveOptions),
                ValidateMove(g.board, g.castlingRights, g.enPassantSquare,
                             moveOptions, g.currentTurn))

(* getDisambiguation: file, rank or square of origin when another piece   *)
(* of the type can reach the destination                                   *)
Ambiguous(legalMoves, move) ==
  SelectSeq(legalMoves,
            LAMBDA m : m.to = move.to /\ m.piece.type = move.piece.type
                       /\ m.from # move.from)

Disambiguate(ambiguousMoves, move) ==
  IF Len(ambiguousMoves) = 0 THEN ""
  ELSE IF ~\E i \in 1..Len(ambiguousMoves) :
             SubSeq(ambiguousMoves[i].from, 1, 1) = SubSeq(move.from, 1, 1)
  THEN SubSeq(move.from, 1, 1)
  ELSE IF ~\E i \in 1..Len(ambiguousMoves) :
             SubSeq(ambiguousMoves[i].from, 2, 2) = SubSeq(move.from, 2, 2)
  THEN SubSeq(move.from, 2, 2)
  ELSE move.from

GetDisambiguation(g, move) ==
  IF move.piece.type = "pawn" \/ move.piece.type = "king" THEN ""
  ELSE Disambiguate(Ambiguous(GenerateLegalMoves(g.board, g.castlingRights,
                                                 g.enPassantSquare, move.piece.color),
                              move),
                    move)

PieceMap == [king |-> "K", queen |-> "Q", rook |-> "R", bishop |-> "B", knight |-> "N"]

(* move.promotion[0].toUpperCase(): the first letter of the piece's name *)
PromotionInitial == [queen |-> "Q", rook |-> "R", bishop |-> "B", knight |-> "K"]

(* generateSan: the notation before the marks for check and checkmate   *)
GenerateSan(g, move) ==
  IF move.castling # NoCastling
  THEN (IF move.castling = "kingside" THEN "O-O" ELSE "O-O-O")
  ELSE (IF move.piece.type # "pawn" THEN PieceMap[move.piece.type] ELSE "")
       \o GetDisambiguation(g, move)
       \o (IF move.captured # NoPiece \/ move.enPassant
           THEN (IF move.piece.type = "pawn" THEN SubSeq(move.from, 1, 1) ELSE "") \o "x"
           ELSE "")
       \o move.to
       \o (IF move.promotion # NoPromotion
           THEN "=" \o PromotionInitial[move.promotion] ELSE "")

(* The marks Game.move adds once the status is updated *)
SanMarks(after) ==
  IF after.gameStatus = "checkmate" THEN "#"
  ELSE IF IsKingInCheck(after.board, after.currentTurn) THEN "+"
  ELSE ""

(* move.san as Game.move sets it on the move it executes *)
MoveSan(g, move) == GenerateSan(g, move) \o SanMarks(ApplyMove(g, move))

RestoreGameStateFromMove(g, move) ==
  [g EXCEPT !.castlingRights = UpdateCastlingRights(@, move)]

RestoreInitialGameState(g) ==
  [g EXCEPT !.castlingRights = AllCastlingRights, !.enPassantSquare = NoSquare,
            !.halfMoveClock = 0, !.fullMoveNumber = 1]

(* Game.undo, the captured piece: back on its square, on the pawn's       *)
(* square for en passant, or the target square cleared                     *)
UndoCapture(b, move) ==
  IF move.captured # NoPiece
  THEN IF move.enPassant
       THEN SetPiece(SetPiece(b, SquareOf(FileChar(move.to),
                                          IF move.piece.color = "white" THEN 5 ELSE 4),
                              move.captured),
                     move.to, NoPiece)
       ELSE SetPiece(b, move.to, move.captured)
  ELSE SetPiece(b, move.to, NoPiece)

(* Game.undo, the rook of a castling *)
UndoRook(b, move) ==
  IF move.castling # NoCastling THEN UndoCastling(b, move) ELSE b

(* Game.undo, the board *)
UndoOnBoard(b, move) ==
  UndoRook(UndoCapture(SetPiece(b, move.from, move.piece), move), move)

(* Game.undo, the state: from the move before, or the initial state *)
RestoreGameState(g) ==
  IF Len(g.moveHistory) > 0
  THEN RestoreGameStateFromMove(g, g.moveHistory[Len(g.moveHistory)])
  ELSE RestoreInitialGameState(g)

(* Game.undo *)
GameUndo(g) ==
  IF Len(g.moveHistory) = 0 THEN [game |-> g, result |-> NoMove]
  ELSE [game |->
          UpdateGameStatus(
            [RestoreGameState(
               [g EXCEPT !.moveHistory = SubSeq(@, 1, Len(@) - 1),
                         !.board = UndoOnBoard(@, g.moveHistory[Len(g.moveHistory)])])
             EXCEPT !.currentTurn = Opponent(@)]),
        result |-> g.moveHistory[Len(g.moveHistory)]]

(* Game.reset: every field is assigned, none is read *)
GameReset ==
  RecordPosition(
    [board |-> StartingPosition, currentTurn |-> "white", moveHistory |-> <<>>,
     castlingRights |-> AllCastlingRights, enPassantSquare |-> NoSquare,
     halfMoveClock |-> 0, fullMoveNumber |-> 1, gameStatus |-> "active",
     positionHistory |-> EmptyTable])

(* A loadFen that starts the counters afresh instead of taking the FEN's *)
GameLoadFenFreshCounters(data) ==
  UpdateGameStatus(RecordPosition(
    [board |-> data.board, currentTurn |-> data.turn,
     castlingRights |-> data.castlingRights,
     enPassantSquare |-> data.enPassantSquare,
     halfMoveClock |-> 0,
     fullMoveNumber |-> 1,
     moveHistory |-> <<>>, gameStatus |-> "active",
     positionHistory |-> EmptyTable]))

(* Game.loadFen, given what FenParser.parse returns for the FEN: every     *)
(* field is assigned, none is read                                         *)
GameLoadFen(data) ==
  UpdateGameStatus(RecordPosition(
    [board |-> data.board, currentTurn |-> data.turn,
     castlingRights |-> data.castlingRights,
     enPassantSquare |-> data.enPassantSquare,
     halfMoveClock |-> data.halfMoveClock,
     fullMoveNumber |-> data.fullMoveNumber,
     moveHistory |-> <<>>, gameStatus |-> "active",
     positionHistory |-> EmptyTable]))

GetLegalMoves(g) ==
  GenerateLegalMoves(g.board, g.castlingRights, g.enPassantSquare, g.currentTurn)

----------------------------------------------------------------------------
(* FenParser: FEN text is a string, written with \o and read with SubSeq *)

(* A record of castling rights *)
Rights(wk, wq, bk, bq) ==
  [whiteKingside |-> wk, whiteQueenside |-> wq,
   blackKingside |-> bk, blackQueenside |-> bq]

DigitChars == <<"0", "1", "2", "3", "4", "5", "6", "7", "8", "9">>

CharAt(str, i) == SubSeq(str, i, i)

IsDigit(char) == \E d \in 1..10 : DigitChars[d] = char

DigitValue(char) == (CHOOSE d \in 1..10 : DigitChars[d] = char) - 1

(* Number.prototype.toString of a natural number *)
RECURSIVE NumberToString(_)
NumberToString(n) ==
  IF n < 10 THEN DigitChars[n + 1]
  ELSE NumberToString(n \div 10) \o DigitChars[(n % 10) + 1]

RECURSIVE ParseDigits(_, _, _)
ParseDigits(str, i, acc) ==
  IF i > Len(str) \/ ~IsDigit(CharAt(str, i)) THEN acc
  ELSE ParseDigits(str, i + 1, 10 * acc + DigitValue(CharAt(str, i)))

(* parseInt(str, 10) is NaN when str has no leading digit, a minus sign    *)
(* allowed before it; otherwise it is the value of the leading digits      *)
IsNaN(str) ==
  ~ \/ Len(str) >= 1 /\ IsDigit(CharAt(str, 1))
    \/ Len(str) >= 2 /\ CharAt(str, 1) = "-" /\ IsDigit(CharAt(str, 2))

ParseInt(str) ==
  IF CharAt(str, 1) = "-" THEN 0 - ParseDigits(str, 2, 0)
  ELSE ParseDigits(str, 1, 0)

(* String.split on one separator character *)
RECURSIVE SplitFrom(_, _, _, _)
SplitFrom(str, sep, start, i) ==
  IF i > Len(str) THEN <<SubSeq(str, start, Len(str))>>
  ELSE IF CharAt(str, i) = sep
  THEN <<SubSeq(str, start, i - 1)>> \o SplitFrom(str, sep, i + 1, i + 1)
  ELSE SplitFrom(str, sep, start, i + 1)

Split(str, sep) == SplitFrom(str, sep, 1, 1)

(* fen.trim().split(/\s+/): the fields between runs of blanks *)
SplitOnBlanks(str) == SelectSeq(Split(str, " "), LAMBDA part : part # "")

PieceChars ==
  [pawn |-> <<"P", "p">>, knight |-> <<"N", "n">>, bishop |-> <<"B", "b">>,
   rook |-> <<"R", "r">>, queen |-> <<"Q", "q">>, king |-> <<"K", "k">>]

PieceTypes == {"pawn", "knight", "bishop", "rook", "queen", "king"}

PieceToChar(piece) ==
  IF piece.color = "white" THEN PieceChars[piece.type][1] ELSE PieceChars[piece.type][2]

(* charToPiece: the piece of a letter, or null *)
CharToPiece(char) ==
  IF \E t \in PieceTypes : PieceChars[t][1] = char
  THEN Piece(CHOOSE t \in PieceTypes : PieceChars[t][1] = char, "white")
  ELSE IF \E t \in PieceTypes : PieceChars[t][2] = char
  THEN Piece(CHOOSE t \in PieceTypes : PieceChars[t][2] = char, "black")
  ELSE NoPiece

(* The inner loop of generatePiecePlacement from column col on *)
RECURSIVE GenerateRank(_, _, _, _)
GenerateRank(b, row, col, emptyCount) ==
  IF col > 7 THEN (IF emptyCount > 0 THEN NumberToString(emptyCount) ELSE "")
  ELSE IF GetPieceAt(b, row, col) # NoPiece
  THEN (IF emptyCount > 0 THEN NumberToString(emptyCount) ELSE "")
       \o PieceToChar(GetPieceAt(b, row, col))
       \o GenerateRank(b, row, col + 1, 0)
  ELSE GenerateRank(b, row, col + 1, emptyCount + 1)

(* ranks.join('/') over the rows 7 down to row *)
RECURSIVE GenerateRanksFrom(_, _)
GenerateRanksFrom(b, row) ==
  IF row = 0 THEN GenerateRank(b, 0, 0, 0)
  ELSE GenerateRank(b, row, 0, 0) \o "/" \o GenerateRanksFrom(b, row - 1)

GeneratePiecePlacement(b) == GenerateRanksFrom(b, 7)

CastlingLetters(rights) ==
  (IF rights.whiteKingside THEN "K" ELSE "")
  \o (IF rights.whiteQueenside THEN "Q" ELSE "")
  \o (IF rights.blackKingside THEN "k" ELSE "")
  \o (IF rights.blackQueenside THEN "q" ELSE "")

GenerateCastlingRights(rights) ==
  IF CastlingLetters(rights) = "" THEN "-" ELSE CastlingLetters(rights)

FenGenerate(b, turn, cr, ep, halfMove, fullMove) ==
  GeneratePiecePlacement(b)
  \o " " \o (IF turn = "white" THEN "w" ELSE "b")
  \o " " \o GenerateCastlingRights(cr)
  \o " " \o (IF ep = NoSquare THEN "-" ELSE ep)
  \o " " \o NumberToString(halfMove)
  \o " " \o NumberToString(fullMove)

(* A parsing step has a result, or it throws 'Invalid FEN' *)
Parsed(value) == [valid |-> TRUE, value |-> value]
Invalid == [valid |-> FALSE, value |-> "Invalid FEN"]

(* The loop of parsePiecePlacement over the characters of one rank *)
RECURSIVE ParseRank(_, _, _, _, _)
ParseRank(b, rank, rankIndex, i, fileIndex) ==
  IF i > Len(rank) THEN (IF fileIndex # 8 THEN Invalid ELSE Parsed(b))
  ELSE IF fileIndex >= 8 THEN Invalid
  ELSE IF IsDigit(CharAt(rank, i))
  THEN (IF DigitValue(CharAt(rank, i)) < 1 \/ DigitValue(CharAt(rank, i)) > 8
        THEN Invalid
        ELSE ParseRank(b, rank, rankIndex, i + 1,
                       fileIndex + DigitValue(CharAt(rank, i))))
  ELSE IF CharToPiece(CharAt(rank, i)) = NoPiece THEN Invalid
  ELSE ParseRank(SetPieceAt(b, 7 - rankIndex, fileIndex, CharToPiece(CharAt(rank, i))),
                 rank, rankIndex, i + 1, fileIndex + 1)

(* The loop of parsePiecePlacement over the ranks, given the board so far *)
RECURSIVE ParseRanks(_, _, _)
ParseRanks(parsed, ranks, rankIndex) ==
  IF ~parsed.valid \/ rankIndex > 7 THEN parsed
  ELSE ParseRanks(ParseRank(parsed.value, ranks[rankIndex + 1], rankIndex, 1, 0),
                  ranks, rankIndex + 1)

ParsePiecePlacementRanks(ranks) ==
  IF Len(ranks) # 8 THEN Invalid ELSE ParseRanks(Parsed(EmptyBoard), ranks, 0)

ParsePiecePlacement(placement) == ParsePiecePlacementRanks(Split(placement, "/"))

ParseActiveColor(color) ==
  IF color = "w" THEN Parsed("white")
  ELSE IF color = "b" THEN Parsed("black")
  ELSE Invalid

ParseCastlingRights(castling) ==
  IF castling = "-" THEN Parsed(Rights(FALSE, FALSE, FALSE, FALSE))
  ELSE IF \E i \in 1..Len(castling) : CharAt(castling, i) \notin {"K", "Q", "k", "q"}
  THEN Invalid
  ELSE Parsed(Rights(\E i \in 1..Len(castling) : CharAt(castling, i) = "K",
                     \E i \in 1..Len(castling) : CharAt(castling, i) = "Q",
                     \E i \in 1..Len(castling) : CharAt(castling, i) = "k",
                     \E i \in 1..Len(castling) : CharAt(castling, i) = "q"))

(* /^[a-h][36]$/ *)
ParseEnPassant(enPassant) ==
  IF enPassant = "-" THEN Parsed(NoSquare)
  ELSE IF /\ Len(enPassant) = 2
          /\ \E c \in 1..8 : Files[c] = CharAt(enPassant, 1)
          /\ CharAt(enPassant, 2) \in {"3", "6"}
  THEN Parsed(enPassant)
  ELSE Invalid

ParseClock(text, least) ==
  IF IsNaN(text) THEN Invalid
  ELSE IF ParseInt(text) < least THEN Invalid
  ELSE Parsed(ParseInt(text))

ParseHalfMoveClock(halfMove) == ParseClock(halfMove, 0)
ParseFullMoveNumber(fullMove) == ParseClock(fullMove, 1)

(* FenParser.parse once the fields are parsed: the first failure throws *)
ParsedFields(placement, color, rights, ep, halfMove, fullMove) ==
  IF ~ /\ placement.valid /\ color.valid /\ rights.valid
       /\ ep.valid /\ halfMove.valid /\ fullMove.valid
  THEN Invalid
  ELSE Parsed([board |-> placement.value, turn |-> color.value,
               castlingRights |-> rights.value, enPassantSquare |-> ep.value,
               halfMoveClock |-> halfMove.value, fullMoveNumber |-> fullMove.value])

FenParseParts(parts) ==
  IF Len(parts) # 6 THEN Invalid
  ELSE ParsedFields(ParsePiecePlacement(parts[1]), ParseActiveColor(parts[2]),
                    ParseCastlingRights(parts[3]), ParseEnPassant(parts[4]),
                    ParseHalfMoveClock(parts[5]), ParseFullMoveNumber(parts[6]))

FenParse(fen) == FenParseParts(SplitOnBlanks(fen))

(* Game.getFen *)
GetFen(g) ==
  FenGenerate(g.board, g.currentTurn, g.castlingRights, g.enPassantSquare,
              g.halfMoveClock, g.fullMoveNumber)

(* Game.loadFen of a FEN text: parse throws before any field is assigned *)
LoadFenParsed(g, parsed) == IF parsed.valid THEN GameLoadFen(parsed.value) ELSE g

GameLoadFenText(g, fen) == LoadFenParsed(g, FenParse(fen))

----------------------------------------------------------------------------
(* Evaluation.  evaluateBoard adds a tenth of the positional score to the  *)
(* material score; the scores here are in tenths of a centipawn, ten times *)
(* the code's, so that they stay integers                                  *)

PIECE_VALUES ==
  [pawn |-> 100, knight |-> 320, bishop |-> 330, rook |-> 500,
   queen |-> 900, king |-> 20000]

PAWN_TABLE ==
  <<<<0, 0, 0, 0, 0, 0, 0, 0>>,
    <<50, 50, 50, 50, 50, 50, 50, 50>>,
    <<10, 10, 20, 30, 30, 20, 10, 10>>,
    <<5, 5, 10, 25, 25, 10, 5, 5>>,
    <<0, 0, 0, 20, 20, 0, 0, 0>>,
    <<5, -5, -10, 0, 0, -10, -5, 5>>,
    <<5, 10, 10, -20, -20, 10, 10, 5>>,
    <<0, 0, 0, 0, 0, 0, 0, 0>>>>

KNIGHT_TABLE ==
  <<<<-50, -40, -30, -30, -30, -30, -40, -50>>,
    <<-40, -20, 0, 0, 0, 0, -20, -40>>,
    <<-30, 0, 10, 15, 15, 10, 0, -30>>,
    <<-30, 5, 15, 20, 20, 15, 5, -30>>,
    <<-30, 0, 15, 20, 20, 15, 0, -30>>,
    <<-30, 5, 10, 15, 15, 10, 5, -30>>,
    <<-40, -20, 0, 5, 5, 0, -20, -40>>,
    <<-50, -40, -30, -30, -30, -30, -40, -50>>>>

BISHOP_TABLE ==
  <<<<-20, -10, -10, -10, -10, -10, -10, -20>>,
    <<-10, 0, 0, 0, 0, 0, 0, -10>>,
    <<-10, 0, 5, 10, 10, 5, 0, -10>>,
    <<-10, 5, 5, 10, 10, 5, 5, -10>>,
    <<-10, 0, 10, 10, 10, 10, 0, -10>>,
    <<-10, 10, 10, 10, 10, 10, 10, -10>>,
    <<-10, 5, 0, 0, 0, 0, 5, -10>>,
    <<-20, -10, -10, -10, -10, -10, -10, -20>>>>

ROOK_TABLE ==
  <<<<0, 0, 0, 0, 0, 0, 0, 0>>,
    <<5, 10, 10, 10, 10, 10, 10, 5>>,
    <<-5, 0, 0, 0, 0, 0, 0, -5>>,
    <<-5, 0, 0, 0, 0, 0, 0, -5>>,
    <<-5, 0, 0, 0, 0, 0, 0, -5>>,
    <<-5, 0, 0, 0, 0, 0, 0, -5>>,
    <<-5, 0, 0, 0, 0, 0, 0, -5>>,
    <<0, 0, 0, 5, 5, 0, 0, 0>>>>

QUEEN_TABLE ==
  <<<<-20, -10, -10, -5, -5, -10, -10, -20>>,
    <<-10, 0, 0, 0, 0, 0, 0, -10>>,
    <<-10, 0, 5, 5, 5, 5, 0, -10>>,
    <<-5, 0, 5, 5, 5, 5, 0, -5>>,
    <<0, 0, 5, 5, 5, 5, 0, -5>>,
    <<-10, 5, 5, 5, 5, 5, 0, -10>>,
    <<-10, 0, 5, 0, 0, 0, 0, -10>>,
    <<-20, -10, -10, -5, -5, -10, -10, -20>>>>

KING_MIDDLE_TABLE ==
  <<<<-30, -40, -40, -50, -50, -40, -40, -30>>,
    <<-30, -40, -40, -50, -50, -40, -40, -30>>,
    <<-30, -40, -40, -50, -50, -40, -40, -30>>,
    <<-30, -40, -40, -50, -50, -40, -40, -30>>,
    <<-20, -30, -30, -40, -40, -30, -30, -20>>,
    <<-10, -20, -20, -20, -20, -20, -20, -10>>,
    <<20, 20, 0, 0, 0, 0, 20, 20>>,
    <<20, 30, 10, 0, 0, 10, 30, 20>>>>

KING_END_TABLE ==
  <<<<-50, -40, -30, -20, -20, -30, -40, -50>>,
    <<-30, -20, -10, 0, 0, -10, -20, -30>>,
    <<-30, -10, 20, 30, 30, 20, -10, -30>>,
    <<-30, -10, 30, 40, 40, 30, -10, -30>>,
    <<-30, -10, 30, 40, 40, 30, -10, -30>>,
    <<-30, -10, 20, 30, 30, 20, -10, -30>>,
    <<-30, -30, 0, 0, 0, 0, -30, -30>>,
    <<-50, -30, -30, -30, -30, -30, -30, -50>>>>

PIECE_TABLES ==
  [pawn |-> PAWN_TABLE, knight |-> KNIGHT_TABLE, bishop |-> BISHOP_TABLE,
   rook |-> ROOK_TABLE, queen |-> QUEEN_TABLE, king |-> KING_MIDDLE_TABLE]

(* The sum of the piece values of the pieces found *)
RECURSIVE SumValues(_, _)
SumValues(pieces, i) ==
  IF i > Len(pieces) THEN 0
  ELSE PIECE_VALUES[pieces[i].piece.type] + SumValues(pieces, i + 1)

EvaluateMaterial(b, color) ==
  SumValues(FindPieces(b, color), 1) - SumValues(FindPieces(b, Opponent(color)), 1)

(* getPieceSquareValue once squareToCoords has answered *)
PieceSquareValueAt(piece, coords, endgame) ==
  IF coords = NoCoords THEN 0
  ELSE (IF piece.color = "white" THEN 1 ELSE -1)
       * (IF piece.type = "king" /\ endgame THEN KING_END_TABLE
          ELSE PIECE_TABLES[piece.type])
           [(IF piece.color = "black" THEN 7 - coords.row ELSE coords.row) + 1]
           [coords.col + 1]

GetPieceSquareValue(piece, square, endgame) ==
  PieceSquareValueAt(piece, SquareToCoords(square), endgame)

(* The loops of evaluatePosition from the square with number n on *)
RECURSIVE EvaluatePositionFrom(_, _, _)
EvaluatePositionFrom(b, endgame, n) ==
  IF n > 63 THEN 0
  ELSE (IF GetPieceAt(b, n \div 8, n % 8) = NoPiece THEN 0
        ELSE GetPieceSquareValue(GetPieceAt(b, n \div 8, n % 8),
                                 CoordsToSquare(n \div 8, n % 8), endgame))
       + EvaluatePositionFrom(b, endgame, n + 1)

EvaluatePosition(b, endgame) == EvaluatePositionFrom(b, endgame, 0)

(* How many of the pieces found have one of the types *)
CountTypes(pieces, types) ==
  Cardinality({i \in 1..Len(pieces) : pieces[i].piece.type \in types})

IsEndgameOf(whitePieces, blackPieces) ==
  \/ /\ CountTypes(whitePieces, {"queen"}) = 0
     /\ CountTypes(blackPieces, {"queen"}) = 0
  \/ /\ CountTypes(whitePieces, {"queen"}) > 0
     /\ CountTypes(whitePieces, {"knight", "bishop", "rook"}) <= 1
     /\ CountTypes(blackPieces, {"queen"}) > 0
     /\ CountTypes(blackPieces, {"knight", "bishop", "rook"}) <= 1

IsEndgame(b) == IsEndgameOf(FindPieces(b, "white"), FindPieces(b, "black"))

(* materialScore + positionScore * 0.1, times ten *)
EvaluateBoard(b, color) ==
  10 * EvaluateMaterial(b, color) + EvaluatePosition(b, IsEndgame(b))

----------------------------------------------------------------------------
(* OpeningBook.  Math.random() is a number of hundredths, 0 to 99 *)

(* Math.max and Math.min *)
Max(a, b) == IF a >= b THEN a ELSE b
Min(a, b) == IF a <= b THEN a ELSE b

OpeningMove(move, weight, eco, name) ==
  [move |-> move, weight |-> weight, eco |-> eco, name |-> name]

NoOpeningMove == OpeningMove("", 0, "", "")

(* The positions of createDefaultOpeningBook *)
DefaultPositions ==
  "rnbqkbnr/pppppppp/8/8/8/8/PPPPPPPP/RNBQKBNR w KQkq -" :>
     <<OpeningMove("e4", 45, "C00", "King's Pawn Opening"),
       OpeningMove("d4", 40, "D00", "Queen's Pawn Opening"),
       OpeningMove("Nf3", 10, "A04", "Reti Opening"),
       OpeningMove("c4", 5, "A10", "English Opening")>>
  @@ "rnbqkbnr/pppppppp/8/8/4P3/8/PPPP1PPP/RNBQKBNR b KQkq e3" :>
     <<OpeningMove("c5", 40, "B20", "Sicilian Defense"),
       OpeningMove("e5", 30, "C40", "King's Pawn Game"),
       OpeningMove("c6", 15, "B10", "Caro-Kann Defense"),
       OpeningMove("e6", 10, "C00", "French Defense"),
       OpeningMove("d6", 5, "B07", "Pirc Defense")>>
  @@ "rnbqkbnr/pppp1ppp/8/4p3/4P3/8/PPPP1PPP/RNBQKBNR w KQkq e6" :>
     <<OpeningMove("Nf3", 70, "C40", "King's Knight Opening"),
       OpeningMove("Bc4", 15, "C23", "Bishop's Opening"),
       OpeningMove("Nc3", 10, "C25", "Vienna Game"),
       OpeningMove("d4", 5, "C21", "Center Game")>>
  @@ "rnbqkbnr/pppp1ppp/8/4p3/4P3/5N2/PPPP1PPP/RNBQKB1R b KQkq -" :>
     <<OpeningMove("Nc6", 80, "C40", "King's Knight Opening"),
       OpeningMove("Nf6", 15, "C42", "Petrov Defense"),
       OpeningMove("d6", 5, "C41", "Philidor Defense")>>
  @@ "r1bqkbnr/pppp1ppp/2n5/4p3/4P3/5N2/PPPP1PPP/RNBQKB1R w KQkq -" :>
     <<OpeningMove("Bb5", 50, "C60", "Ruy Lopez"),
       OpeningMove("Bc4", 30, "C50", "Italian Game"),
       OpeningMove("d4", 15, "C44", "Scotch Game"),
       OpeningMove("Nc3", 5, "C46", "Four Knights Game")>>
  @@ "rnbqkbnr/pppppppp/8/8/3P4/8/PPP1PPPP/RNBQKBNR b KQkq d3" :>
     <<OpeningMove("Nf6", 45, "E00", "Indian Defense"),
       OpeningMove("d5", 40, "D00", "Queen's Pawn Game"),
       OpeningMove("e6", 10, "A40", "Horwitz Defense"),
       OpeningMove("c5", 5, "A40", "Benoni Defense")>>
  @@ "rnbqkbnr/ppp1pppp/8/3p4/3P4/8/PPP1PPPP/RNBQKBNR w KQkq d6" :>
     <<OpeningMove("c4", 70, "D06", "Queen's Gambit"),
       OpeningMove("Nf3", 20, "D02", "London System"),
       OpeningMove("Bf4", 10, "D00", "London System")>>
  @@ "rnbqkb1r/pppppppp/5n2/8/3P4/8/PPP1PPPP/RNBQKBNR w KQkq -" :>
     <<OpeningMove("c4", 60, "E00", "Indian Game"),
       OpeningMove("Nf3", 30, "A45", "Indian Game"),
       OpeningMove("Bg5", 10, "A45", "Trompowsky Attack")>>

(* new OpeningBook(config) with the data loaded, and no book at all *)
OpeningBook(enabled, randomize, positions) ==
  [attached |-> TRUE,
   config |-> [enabled |-> enabled, maxDepth |-> 12, randomize |-> randomize,
               minWeight |-> 5],
   positions |-> positions]

NoBook == [attached |-> FALSE]

CreateDefaultOpeningBook == OpeningBook(TRUE, TRUE, DefaultPositions)

(* parts.slice(0, 4).join(' ') *)
RECURSIVE JoinParts(_, _, _)
JoinParts(parts, i, last) ==
  IF i > last THEN ""
  ELSE IF i = last THEN parts[i]
  ELSE parts[i] \o " " \o JoinParts(parts, i + 1, last)

NormalizeFENParts(parts) == JoinParts(parts, 1, Min(4, Len(parts)))

NormalizeFEN(fen) == NormalizeFENParts(Split(fen, " "))

(* moves.reduce: the first move of the highest weight *)
RECURSIVE HighestWeight(_, _, _)
HighestWeight(moves, i, best) ==
  IF i > Len(moves) THEN best
  ELSE HighestWeight(moves, i + 1,
                     IF moves[i].weight > best.weight THEN moves[i] ELSE best)

RECURSIVE TotalWeight(_, _)
TotalWeight(moves, i) ==
  IF i > Len(moves) THEN 0 ELSE moves[i].weight + TotalWeight(moves, i + 1)

(* The loop of the weighted selection; random is in hundredths *)
RECURSIVE WeightedPick(_, _, _)
WeightedPick(moves, i, random) ==
  IF i > Len(moves) THEN moves[1]
  ELSE IF random - 100 * moves[i].weight <= 0 THEN moves[i]
  ELSE WeightedPick(moves, i + 1, random - 100 * moves[i].weight)

SelectMove(book, moves, draw) ==
  IF ~book.config.randomize THEN HighestWeight(moves, 2, moves[1])
  ELSE WeightedPick(moves, 1, draw * TotalWeight(moves, 1))

(* getMove once the position is looked up *)
SelectValid(book, validMoves, draw) ==
  IF Len(validMoves) = 0 THEN NoOpeningMove ELSE SelectMove(book, validMoves, draw)

LookedUp(book, fen, draw) ==
  IF fen \notin DOMAIN book.positions THEN NoOpeningMove
  ELSE SelectValid(book,
                   SelectSeq(book.positions[fen],
                             LAMBDA m : m.weight >= book.config.minWeight),
                   draw)

GetMove(book, game, draw) ==
  IF ~book.config.enabled THEN NoOpeningMove
  ELSE IF Len(game.moveHistory) >= book.config.maxDepth THEN NoOpeningMove
  ELSE LookedUp(book, NormalizeFEN(GetFen(game)), draw)

----------------------------------------------------------------------------
(* MinimaxAI.  The search runs on a heap of Game objects: heap[1] is the   *)
(* game passed in, a clone is a new entry, and a move made on an entry     *)
(* changes that entry.  The clock is read at the places where the code     *)
(* compares Date.now() with the thinking time; the reads from number       *)
(* deadline on find the time used up.                                      *)

Infinity == 1000000000
NoDeadline == Infinity

(* DIFFICULTY_CONFIGS, randomness in hundredths *)
DIFFICULTY_CONFIGS ==
  [harmless |-> [maxDepth |-> 1, randomness |-> 50],
   easy     |-> [maxDepth |-> 2, randomness |-> 30],
   medium   |-> [maxDepth |-> 3, randomness |-> 10],
   hard     |-> [maxDepth |-> 4, randomness |-> 5],
   expert   |-> [maxDepth |-> 5, randomness |-> 0],
   godlike  |-> [maxDepth |-> 6, randomness |-> 0]]

(* The search as it stands: the heap, the latest clone, this.stats, the    *)
(* clock reads so far, the entries moved on and the nodes with their score *)
NewSearch(game) ==
  [heap |-> <<game>>, copy |-> 1,
   nodesEvaluated |-> 0, pruneCount |-> 0, maxDepthReached |-> 0,
   clock |-> 0, moved |-> <<>>, visited |-> <<>>]

(* Date.now() - startTime > maxThinkingTime at the next read of the clock *)
TimeUp(config, st) == st.clock >= config.deadline
Tick(st) == [st EXCEPT !.clock = @ + 1]

(* A clone that is the game itself *)
CloneGameShared(st, ref) == [st EXCEPT !.copy = ref]

(* cloneGame: a new Game that loads the FEN of the game cloned *)
CloneGame(st, ref) ==
  [st EXCEPT !.heap = Append(@, GameLoadFenText(NewGame, GetFen(st.heap[ref]))),
             !.copy = Len(st.heap) + 1]

(* gameCopy.move(move) *)
MoveCopy(st, move) ==
  [st EXCEPT !.heap[st.copy] = GameMove(@, OptionOf(move)).game,
             !.moved = Append(@, st.copy)]

(* What minimax returns, with the search as it then stands *)
Scored(st, score) == [st |-> st, score |-> score]

(* The node's status and score, noted *)
Visited(status, result) ==
  Scored([result.st EXCEPT !.visited = Append(@, <<status, result.score>>)],
         result.score)

MateScore(config, depth, maximizingPlayer) ==
  IF maximizingPlayer THEN -100000 + 10 * (config.maxDepth - depth)
  ELSE 100000 - 10 * (config.maxDepth - depth)

RECURSIVE Minimax(_, _, _, _, _, _, _)
RECURSIVE SearchMoves(_, _, _, _, _, _, _, _, _, _)

(* minimax on the latest clone *)
MinimaxCopy(config, st, depth, alpha, beta, maximizingPlayer) ==
  Minimax(config, st, st.copy, depth, alpha, beta, maximizingPlayer)

(* A loop body that breaks off as soon as a child improves on the bound *)
AfterChildEager(config, ref, depth, alpha, beta, maximizingPlayer, legalMoves, i, best, child) ==
  IF (IF maximizingPlayer THEN child.score > alpha ELSE child.score < beta)
  THEN Scored([child.st EXCEPT !.pruneCount = @ + 1],
              IF maximizingPlayer THEN Max(best, child.score)
              ELSE Min(best, child.score))
  ELSE SearchMoves(config, Tick(child.st), ref, depth, alpha, beta,
                   maximizingPlayer, legalMoves, i + 1,
                   IF maximizingPlayer THEN Max(best, child.score)
                   ELSE Min(best, child.score))

(* The body of the two loops of minimax once the child has been searched *)
AfterChild(config, ref, depth, alpha, beta, maximizingPlayer, legalMoves, i, best, child) ==
  IF (IF maximizingPlayer THEN beta ELSE Min(beta, child.score))
     <= (IF maximizingPlayer THEN Max(alpha, child.score) ELSE alpha)
  THEN Scored([child.st EXCEPT !.pruneCount = @ + 1],
              IF maximizingPlayer THEN Max(best, child.score)
              ELSE Min(best, child.score))
  ELSE IF TimeUp(config, child.st)
  THEN Scored(Tick(child.st),
              IF maximizingPlayer THEN Max(best, child.score)
              ELSE Min(best, child.score))
  ELSE SearchMoves(config, Tick(child.st), ref, depth,
                   IF maximizingPlayer THEN Max(alpha, child.score) ELSE alpha,
                   IF maximizingPlayer THEN beta ELSE Min(beta, child.score),
                   maximizingPlayer, legalMoves, i + 1,
                   IF maximizingPlayer THEN Max(best, child.score)
                   ELSE Min(best, child.score))

(* The loops of minimax from move i on; best is maxEval or minEval *)
SearchMoves(config, st, ref, depth, alpha, beta, maximizingPlayer, legalMoves,
            i, best) ==
  IF i > Len(legalMoves) THEN Scored(st, best)
  ELSE AfterChild(config, ref, depth, alpha, beta, maximizingPlayer, legalMoves,
                  i, best,
                  MinimaxCopy(config, MoveCopy(CloneGame(st, ref), legalMoves[i]),
                              depth - 1, alpha, beta, ~maximizingPlayer))

(* minimax from getLegalMoves on *)
SearchNode(config, st, ref, depth, alpha, beta, maximizingPlayer, legalMoves) ==
  IF Len(legalMoves) = 0 THEN Scored(st, 0)
  ELSE SearchMoves(config, st, ref, depth, alpha, beta, maximizingPlayer,
                   legalMoves, 1,
                   IF maximizingPlayer THEN -Infinity ELSE Infinity)

(* A search that also stops to evaluate two plies above its horizon *)
MinimaxCountedCutShort(config, st, ref, depth, alpha, beta, maximizingPlayer, status) ==
  IF status = "checkmate" THEN Scored(st, MateScore(config, depth, maximizingPlayer))
  ELSE IF status = "stalemate" \/ status = "draw" THEN Scored(st, 0)
  ELSE IF depth = 0 \/ depth = 2
  THEN Scored(st, EvaluateBoard(st.heap[ref].board, "white"))
  ELSE IF TimeUp(config, st)
  THEN Scored(Tick(st), EvaluateBoard(st.heap[ref].board, "white"))
  ELSE SearchNode(config, Tick(st), ref, depth, alpha, beta, maximizingPlayer,
                  GetLegalMoves(st.heap[ref]))

(* minimax once the node is counted *)
MinimaxCounted(config, st, ref, depth, alpha, beta, maximizingPlayer, status) ==
  IF status = "checkmate" THEN Scored(st, MateScore(config, depth, maximizingPlayer))
  ELSE IF status = "stalemate" \/ status = "draw" THEN Scored(st, 0)
  ELSE IF depth = 0 THEN Scored(st, EvaluateBoard(st.heap[ref].board, "white"))
  ELSE IF TimeUp(config, st)
  THEN Scored(Tick(st), EvaluateBoard(st.heap[ref].board, "white"))
  ELSE SearchNode(config, Tick(st), ref, depth, alpha, beta, maximizingPlayer,
                  GetLegalMoves(st.heap[ref]))

Minimax(config, st, ref, depth, alpha, beta, maximizingPlayer) ==
  Visited(st.heap[ref].gameStatus,
          MinimaxCounted(config,
                         [st EXCEPT !.nodesEvaluated = @ + 1,
                                    !.maxDepthReached = Max(@, config.maxDepth - depth)],
                         ref, depth, alpha, beta, maximizingPlayer,
                         st.heap[ref].gameStatus))

(* The san of a move object built by generateLegalMovesFrom: the field  *)
(* is only set by Game.move, on the move it has executed                   *)
ListedSan(move) == "undefined"

(* legalMoves.find((m) => m.san === bookMove.move): the place of the first *)
(* match, 0 when there is none                                             *)
FindBookMove(legalMoves, bookMove) ==
  IF \E i \in 1..Len(legalMoves) : ListedSan(legalMoves[i]) = bookMove.move
  THEN CHOOSE i \in 1..Len(legalMoves) :
         /\ ListedSan(legalMoves[i]) = bookMove.move
         /\ \A j \in 1..(i - 1) : ListedSan(legalMoves[j]) # bookMove.move
  ELSE 0

MoveEvaluation(move, score, depth, nodesEvaluated) ==
  [move |-> move, score |-> score, depth |-> depth, nodesEvaluated |-> nodesEvaluated]

(* What an AI call gives back: the AIAnalysis or the error thrown, and     *)
(* the search it has run                                                   *)
AIAnalysis(bestMove, score, depth, nodesEvaluated, openingName, eco, topMoves, st) ==
  [bestMove |-> bestMove, score |-> score, depth |-> depth,
   nodesEvaluated |-> nodesEvaluated, openingName |-> openingName, eco |-> eco,
   topMoves |-> topMoves, error |-> "", search |-> st]

(* A call that comes back with no move and no error *)
ReturnedNothing(error, st) ==
  [bestMove |-> NoMove, score |-> 0, depth |-> 0, nodesEvaluated |-> 0,
   openingName |-> "", eco |-> "", topMoves |-> <<>>, error |-> "",
   search |-> st]

Thrown(error, st) ==
  [bestMove |-> NoMove, score |-> 0, depth |-> 0, nodesEvaluated |-> 0,
   openingName |-> "", eco |-> "", topMoves |-> <<>>, error |-> error,
   search |-> st]

RECURSIVE EvaluateMoves(_, _, _, _, _, _)

(* The body of the loop of analyze once the move has been searched *)
AfterRootMove(config, legalMoves, i, maximizingPlayer, evaluations, child) ==
  IF TimeUp(config, child.st)
  THEN [st |-> Tick(child.st),
        evaluations |-> Append(evaluations,
                               MoveEvaluation(legalMoves[i], child.score,
                                              config.maxDepth,
                                              child.st.nodesEvaluated))]
  ELSE EvaluateMoves(config, Tick(child.st), legalMoves, i + 1, maximizingPlayer,
                     Append(evaluations,
                            MoveEvaluation(legalMoves[i], child.score,
                                           config.maxDepth,
                                           child.st.nodesEvaluated)))

(* The loop of analyze over the legal moves from move i on *)
EvaluateMoves(config, st, legalMoves, i, maximizingPlayer, evaluations) ==
  IF i > Len(legalMoves) THEN [st |-> st, evaluations |-> evaluations]
  ELSE AfterRootMove(config, legalMoves, i, maximizingPlayer, evaluations,
                     MinimaxCopy(config, MoveCopy(CloneGame(st, 1), legalMoves[i]),
                                 config.maxDepth - 1, -Infinity, Infinity,
                                 ~maximizingPlayer))

(* evaluations.sort: stable, higher first for White, lower first for Black *)
InsertEvaluation(sorted, e, maximizingPlayer) ==
  LET before == {k \in 1..Len(sorted) :
                   IF maximizingPlayer THEN sorted[k].score >= e.score
                   ELSE sorted[k].score <= e.score}
      n == IF before = {} THEN 0
           ELSE CHOOSE k \in before : \A j \in before : j <= k
  IN SubSeq(sorted, 1, n) \o <<e>> \o SubSeq(sorted, n + 1, Len(sorted))

RECURSIVE SortEvaluations(_, _, _, _)
SortEvaluations(evaluations, i, maximizingPlayer, sorted) ==
  IF i > Len(evaluations) THEN sorted
  ELSE SortEvaluations(evaluations, i + 1, maximizingPlayer,
                       InsertEvaluation(sorted, evaluations[i], maximizingPlayer))

(* A choice among the five best moves when the draw triggers *)
ChosenAmongFive(config, st, evaluations, draws) ==
  AIAnalysis(IF config.randomness > 0 /\ draws[2] < config.randomness
             THEN evaluations[((draws[3] * Min(5, Len(evaluations))) \div 100) + 1].move
             ELSE evaluations[1].move,
             evaluations[1].score, st.maxDepthReached, st.nodesEvaluated,
             "", "", SubSeq(evaluations, 1, Min(5, Len(evaluations))), st)

(* analyze from the sort on; the draws are the two calls of Math.random *)
Chosen(config, st, evaluations, draws) ==
  AIAnalysis(IF config.randomness > 0 /\ draws[2] < config.randomness
             THEN evaluations[((draws[3] * Min(3, Len(evaluations))) \div 100) + 1].move
             ELSE evaluations[1].move,
             evaluations[1].score, st.maxDepthReached, st.nodesEvaluated,
             "", "", SubSeq(evaluations, 1, Min(5, Len(evaluations))), st)

(* analyze from the reset of the stats to the sort *)
Sorted(game, searched) ==
  [st |-> searched.st,
   evaluations |-> SortEvaluations(searched.evaluations, 1,
                                   game.currentTurn = "white", <<>>)]

SearchSorted(config, game, legalMoves) ==
  Sorted(game, EvaluateMoves(config, NewSearch(game), legalMoves, 1,
                             game.currentTurn = "white", <<>>))

(* analyze without the return for a single legal move *)
AnalysedSearchingSingle(config, game, legalMoves, bookMove, draws, searched) ==
  IF bookMove # NoOpeningMove /\ FindBookMove(legalMoves, bookMove) # 0
  THEN AIAnalysis(legalMoves[FindBookMove(legalMoves, bookMove)], 0, 0, 1,
                  bookMove.name, bookMove.eco, <<>>, NewSearch(game))
  ELSE IF Len(legalMoves) = 0
  THEN Thrown("No legal moves available", NewSearch(game))
  ELSE Chosen(config, searched.st, searched.evaluations, draws)

(* analyze, given the legal moves, the book's answer and what the search   *)
(* leaves where the code gets that far                                     *)
Analysed(config, game, legalMoves, bookMove, draws, searched) ==
  IF bookMove # NoOpeningMove /\ FindBookMove(legalMoves, bookMove) # 0
  THEN AIAnalysis(legalMoves[FindBookMove(legalMoves, bookMove)], 0, 0, 1,
                  bookMove.name, bookMove.eco, <<>>, NewSearch(game))
  ELSE IF Len(legalMoves) = 0
  THEN Thrown("No legal moves available", NewSearch(game))
  ELSE IF Len(legalMoves) = 1
  THEN AIAnalysis(legalMoves[1], 0, 0, 1, "", "", <<>>, NewSearch(game))
  ELSE Chosen(config, searched.st, searched.evaluations, draws)

(* this.openingBook.getMove(game), null without a book *)
BookMoveFor(book, game, draw) ==
  IF book.attached THEN GetMove(book, game, draw) ELSE NoOpeningMove

AnalyzeListed(config, book, game, draws, legalMoves) ==
  Analysed(config, game, legalMoves, BookMoveFor(book, game, draws[1]), draws,
           SearchSorted(config, game, legalMoves))

(* MinimaxAI.analyze *)
Analyze(config, book, game, draws) ==
  AnalyzeListed(config, book, game, draws, GetLegalMoves(game))

(* MinimaxAI.evaluateMove *)
EvaluatedMove(config, move, child) ==
  [evaluation |-> MoveEvaluation(move, child.score, config.maxDepth,
                                 child.st.nodesEvaluated),
   search |-> child.st]

EvaluateMove(config, game, move) ==
  EvaluatedMove(config, move,
                MinimaxCopy(config, MoveCopy(CloneGame(NewSearch(game), 1), move),
                            config.maxDepth - 1, -Infinity, Infinity,
                            game.currentTurn # "white"))

(* RandomAI.getBestMove and RandomAI.analyze; the draw is Math.random() *)
RandomPick(game, legalMoves, draw) ==
  IF Len(legalMoves) = 0 THEN Thrown("No legal moves available", NewSearch(game))
  ELSE AIAnalysis(legalMoves[((draw * Len(legalMoves)) \div 100) + 1], 0, 0,
                  Len(legalMoves), "", "", <<>>, NewSearch(game))

RandomAnalyze(game, draw) == RandomPick(game, GetLegalMoves(game), draw)

----------------------------------------------------------------------------
(* Positions the caller loads with loadFen: the FEN text and what          *)
(* FenParser.parse returns for it                                          *)

BoardOf(placements) ==
  [r \in 0..7 |-> [c \in 0..7 |->
     IF \E p \in placements : p[1] = CoordsToSquare(r, c)
     THEN LET p == CHOOSE q \in placements : q[1] = CoordsToSquare(r, c)
          IN Piece(p[2], p[3])
     ELSE NoPiece]]

FenData(fen, placements, turn, rights, ep, halfMove, fullMove) ==
  [fen |-> fen, board |-> BoardOf(placements), turn |-> turn,
   castlingRights |-> rights, enPassantSquare |-> ep,
   halfMoveClock |-> halfMove, fullMoveNumber |-> fullMove]

Fixtures == <<
  FenData("7k/8/8/KPp4r/8/8/8/8 w - c6 0 2",
          {<<"a5", "king", "white">>, <<"b5", "pawn", "white">>,
           <<"c5", "pawn", "black">>, <<"h5", "rook", "black">>,
           <<"h8", "king", "black">>},
          "white", Rights(FALSE, FALSE, FALSE, FALSE), "c6", 0, 2),
  FenData("8/8/8/8/8/1k6/2q5/K7 w - - 0 1",
          {<<"a1", "king", "white">>, <<"b3", "king", "black">>,
           <<"c2", "queen", "black">>},
          "white", Rights(FALSE, FALSE, FALSE, FALSE), NoSquare, 0, 1),
  FenData("4k3/8/8/8/8/8/8/4K3 w - - 0 1",
          {<<"e1", "king", "white">>, <<"e8", "king", "black">>},
          "white", Rights(FALSE, FALSE, FALSE, FALSE), NoSquare, 0, 1),
  FenData("4k3/8/8/8/8/8/8/R3K3 w - - 99 60",
          {<<"a1", "rook", "white">>, <<"e1", "king", "white">>,
           <<"e8", "king", "black">>},
          "white", Rights(FALSE, FALSE, FALSE, FALSE), NoSquare, 99, 60),
  FenData("4k2r/8/8/8/8/8/8/4K2R b Kk - 0 1",
          {<<"e1", "king", "white">>, <<"h1", "rook", "white">>,
           <<"e8", "king", "black">>, <<"h8", "rook", "black">>},
          "black", Rights(TRUE, FALSE, TRUE, FALSE), NoSquare, 0, 1),
  FenData("1r2k3/P7/8/8/8/8/8/4K3 w - - 0 1",
          {<<"a7", "pawn", "white">>, <<"e1", "king", "white">>,
           <<"b8", "rook", "black">>, <<"e8", "king", "black">>},
          "white", Rights(FALSE, FALSE, FALSE, FALSE), NoSquare, 0, 1),
  FenData("7k/6pp/8/8/8/8/8/R3K3 w Q - 0 1",
          {<<"a1", "rook", "white">>, <<"e1", "king", "white">>,
           <<"h8", "king", "black">>, <<"g7", "pawn", "black">>,
           <<"h7", "pawn", "black">>},
          "white", Rights(FALSE, TRUE, FALSE, FALSE), NoSquare, 0, 1),
  FenData("k7/8/8/8/8/8/8/K1B1B3 w - - 0 1",
          {<<"a1", "king", "white">>, <<"c1", "bishop", "white">>,
           <<"e1", "bishop", "white">>, <<"a8", "king", "black">>},
          "white", Rights(FALSE, FALSE, FALSE, FALSE), NoSquare, 0, 1),
  FenData("k7/8/8/6pP/7K/r7/8/6r1 w - g6 0 2",
          {<<"a8", "king", "black">>, <<"g5", "pawn", "black">>,
           <<"h5", "pawn", "white">>, <<"h4", "king", "white">>,
           <<"a3", "rook", "black">>, <<"g1", "rook", "black">>},
          "white", Rights(FALSE, FALSE, FALSE, FALSE), "g6", 0, 2)
>>

(* A request without promotion piece *)
Opt(from, to) == [from |-> from, to |-> to, promotion |-> NoPromotion]

KnightShuffle ==
  <<Opt("g1", "f3"), Opt("g8", "f6"), Opt("f3", "g1"), Opt("f6", "g8")>>

(* Lines of play the caller may follow from the start position: the      *)
(* knight shuffle played three times, a game that ends with an en passant  *)
(* capture, and a game in which black's queen stands on a5, the white king *)
(* walks to h5 behind its pawn on e5, and black plays d7-d5                *)
Lines == <<
  KnightShuffle \o KnightShuffle \o KnightShuffle,
  <<Opt("e2", "e4"), Opt("a7", "a6"), Opt("e4", "e5"), Opt("d7", "d5"),
    Opt("e5", "d6")>>,
  <<Opt("e2", "e4"), Opt("c7", "c6"), Opt("e4", "e5"), Opt("d8", "a5"),
    Opt("e1", "e2"), Opt("a7", "a6"), Opt("e2", "f3"), Opt("b7", "b6"),
    Opt("f3", "g4"), Opt("h7", "h6"), Opt("g4", "h5"), Opt("d7", "d5"),
    Opt("e5", "d6"), Opt("a5", "h5")>>
>>

(* Bounds: the arbitrary calls the caller makes on a loaded position and  *)
(* on the start position.  Beyond them the caller only continues one of   *)
(* the Lines, and may take back the last move of the line.  A caller      *)
(* whose move was rejected makes no further arbitrary call on the         *)
(* position.                                                              *)
MaxCalls == 2
MaxStartCalls == 1

(* Bound: the moves of a line the caller takes back before going on with  *)
(* the line                                                               *)
MaxTakeBacks == 1

----------------------------------------------------------------------------
(* The state machine: one action per API call *)

G ==
  [board |-> board, currentTurn |-> currentTurn, moveHistory |-> moveHistory,
   castlingRights |-> castlingRights, enPassantSquare |-> enPassantSquare,
   halfMoveClock |-> halfMoveClock, fullMoveNumber |-> fullMoveNumber,
   gameStatus |-> gameStatus, positionHistory |-> positionHistory]

SetGame(g) ==
  /\ board' = g.board
  /\ currentTurn' = g.currentTurn
  /\ moveHistory' = g.moveHistory
  /\ castlingRights' = g.castlingRights
  /\ enPassantSquare' = g.enPassantSquare
  /\ halfMoveClock' = g.halfMoveClock
  /\ fullMoveNumber' = g.fullMoveNumber
  /\ gameStatus' = g.gameStatus
  /\ positionHistory' = g.positionHistory

Snapshot(g) ==
  [board |-> g.board, currentTurn |-> g.currentTurn,
   castlingRights |-> g.castlingRights, enPassantSquare |-> g.enPassantSquare,
   halfMoveClock |-> g.halfMoveClock, fullMoveNumber |-> g.fullMoveNumber]

NoInput == [from |-> NoSquare, to |-> NoSquare, promotion |-> NoPromotion]

Call(op, input, fixture, result, error) ==
  [op |-> op, input |-> input, fixture |-> fixture, result |-> result, error |-> error]

SeqToSet(s) == {s[i] : i \in 1..Len(s)}

(* The first square in scan order whose piece is one of the given pieces *)
FirstSquare(b, pieces) ==
  FirstFound(SelectSeq(ScanSquares, LAMBDA sq : GetPiece(b, sq) \in pieces))

PiecesOf(color) ==
  {Piece(t, color) : t \in {"king", "queen", "rook", "bishop", "knight", "pawn"}}

(* Requests that validation must reject, one of each kind where it exists *)
Probes(g) ==
  LET mine == FirstSquare(g.board, PiecesOf(g.currentTurn))
      theirs == FirstSquare(g.board, PiecesOf(Opponent(g.currentTurn)))
      empty == FirstSquare(g.board, {NoPiece})
      myKing == FindKing(g.board, g.currentTurn)
      theirKing == FindKing(g.board, Opponent(g.currentTurn))
  IN {Opt("z9", "e4"), Opt(mine, "e9"), Opt(empty, "e4"), Opt(theirs, "e4"),
      Opt(mine, mine), Opt(myKing, theirKing)}

(* The listed moves as requests, and each with the promotion left out *)
RequestsFor(legal) ==
  {OptionOf(m) : m \in legal} \cup {Opt(m.from, m.to) : m \in legal}

(* What the caller may ask for: every legal move, every promotion move   *)
(* with the promotion left out, and the probes                            *)
MoveInputs(g) == RequestsFor(SeqToSet(GetLegalMoves(g))) \cup Probes(g)

(* The arbitrary calls the caller makes on the position set up *)
Budget == IF setup = 0 THEN MaxStartCalls ELSE MaxCalls

(* The lines the play so far is the beginning of *)
(* The moves of the line taken back: every call on the line is a move or *)
(* the undo of one                                                        *)
TakenBack == (calls - Len(moveHistory)) \div 2

LinesFollowed ==
  IF setup # 0 \/ (calls - Len(moveHistory)) % 2 # 0 \/ TakenBack > MaxTakeBacks
  THEN {}
  ELSE {j \in 1..Len(Lines) :
          /\ Len(moveHistory) <= Len(Lines[j])
          /\ \A k \in 1..Len(moveHistory) : OptionOf(moveHistory[k]) = Lines[j][k]}

(* The next move of each line followed *)
LineInputs ==
  {Lines[j][Len(moveHistory) + 1] :
     j \in {i \in LinesFollowed : Len(moveHistory) < Len(Lines[i])}}

Init ==
  /\ board = NewGame.board
  /\ currentTurn = NewGame.currentTurn
  /\ moveHistory = NewGame.moveHistory
  /\ castlingRights = NewGame.castlingRights
  /\ enPassantSquare = NewGame.enPassantSquare
  /\ halfMoveClock = NewGame.halfMoveClock
  /\ fullMoveNumber = NewGame.fullMoveNumber
  /\ gameStatus = NewGame.gameStatus
  /\ positionHistory = NewGame.positionHistory
  /\ lastCall = Call("new", NoInput, 0, NoMove, "")
  /\ trail = <<>>
  /\ setup = 0
  /\ calls = 0

Move(opts) ==
  /\ \E r \in {GameMove(G, opts)} :
        /\ SetGame(r.game)
        /\ lastCall' = Call("move", opts, 0, r.result, r.error)
        /\ trail' = IF r.result # NoMove THEN Append(trail, Snapshot(G)) ELSE trail
        /\ calls' = IF r.result = NoMove /\ calls < Budget THEN Budget ELSE calls + 1
  /\ UNCHANGED setup

Undo ==
  /\ calls < Budget \/ (LinesFollowed # {} /\ TakenBack < MaxTakeBacks)
  /\ \E r \in {GameUndo(G)} :
        /\ SetGame(r.game)
        /\ lastCall' = Call("undo", NoInput, 0, r.result, "")
        /\ trail' = IF r.result # NoMove THEN SubSeq(trail, 1, Len(trail) - 1) ELSE trail
  /\ calls' = calls + 1
  /\ UNCHANGED setup

Reset ==
  /\ SetGame(GameReset)
  /\ lastCall' = Call("reset", NoInput, 0, NoMove, "")
  /\ trail' = <<>>
  /\ setup' = 0
  /\ calls' = 0

(* The games loadFen leaves for the Fixtures *)
Loaded == [n \in 1..Len(Fixtures) |-> GameLoadFenText(NewGame, Fixtures[n].fen)]

LoadFen(n) ==
  /\ SetGame(Loaded[n])
  /\ lastCall' = Call("loadFen", NoInput, n, NoMove, "")
  /\ trail' = <<>>
  /\ setup' = n
  /\ calls' = 0

(* The requests the caller chooses from *)
Inputs == IF calls < Budget THEN MoveInputs(G) ELSE LineInputs

Next ==
  \/ \E opts \in Inputs : Move(opts)
  \/ Undo
  \/ Reset
  \/ \E n \in 1..Len(Fixtures) : LoadFen(n)

Spec == Init /\ [][Next]_vars

-----------------------------------------------------------------------------
(* The engines at work: a caller sets up a position and asks an engine     *)

(* Positions for the engines: one legal move; checkmated; stalemated; the  *)
(* fiftieth move about to complete; bare kings; a pawn about to promote    *)
SearchFens ==
  <<"7K/8/7k/8/8/8/8/8 w - - 0 1",
    "7k/6Q1/5K2/8/8/8/8/8 b - - 0 1",
    "k7/2Q5/2K5/8/8/8/8/8 b - - 0 1",
    "k7/8/8/8/8/8/8/KN6 w - - 99 60",
    "4k3/8/8/8/8/8/8/4K3 w - - 0 1",
    "4k3/P7/8/8/8/8/8/4K3 w - - 0 1">>

SearchLoaded == [n \in 1..Len(SearchFens) |-> GameLoadFenText(NewGame, SearchFens[n])]

(* Positions of more pieces than this are searched by 'harmless' only *)
DeepSearchPieces == 4

(* Positions of more pieces than this are not searched by 'hard' *)
ThoroughSearchPieces == 2

Difficulties == {"harmless", "easy", "medium", "hard"}

MenOnBoard(b) == Len(FindPieces(b, "white")) + Len(FindPieces(b, "black"))

DifficultiesFor(g) ==
  {d \in Difficulties :
     /\ MenOnBoard(g.board) > DeepSearchPieces => d = "harmless"
     /\ MenOnBoard(g.board) > ThoroughSearchPieces => d # "hard"}

(* The thinking time runs out at the first read of the clock, at the       *)
(* third, or not at all                                                    *)
Deadlines == {0, 2, NoDeadline}

(* Math.random() in hundredths *)
RandomDraws == {0, 50, 99}

Books == [none |-> NoBook, default |-> CreateDefaultOpeningBook,
          disabled |-> OpeningBook(FALSE, TRUE, DefaultPositions)]

(* mergeConfig({difficulty}); the deadline stands for maxThinkingTime *)
MergeConfig(difficulty, deadline) ==
  [maxDepth |-> DIFFICULTY_CONFIGS[difficulty].maxDepth,
   randomness |-> DIFFICULTY_CONFIGS[difficulty].randomness,
   deadline |-> deadline]

AiInput(engine, difficulty, deadline, book, draws, move) ==
  [engine |-> engine, difficulty |-> difficulty, deadline |-> deadline,
   book |-> book, draws |-> draws, move |-> move]

(* What the search has left behind: the game passed in, the clones made,   *)
(* the entries moved on, the nodes visited and the stats                   *)
SearchLeft(st) ==
  [root |-> st.heap[1], clones |-> Len(st.heap) - 1, moved |-> st.moved,
   visited |-> st.visited, nodesEvaluated |-> st.nodesEvaluated,
   pruneCount |-> st.pruneCount, maxDepthReached |-> st.maxDepthReached]

AiCall(op, input, analysis) ==
  [op |-> op, input |-> input, fixture |-> 0, result |-> analysis.bestMove,
   error |-> analysis.error,
   analysis |-> [analysis EXCEPT !.search = SearchLeft(@)]]

(* The caller asks for an engine's answer on a position nobody has yet     *)
(* asked about                                                             *)
Unasked == lastCall.op \in {"new", "reset", "loadFen", "move"}

SearchLoad(n) ==
  /\ SetGame(SearchLoaded[n])
  /\ lastCall' = Call("loadFen", NoInput, n, NoMove, "")
  /\ trail' = <<>>
  /\ setup' = n
  /\ calls' = 0

(* 1. e4 from the start position *)
SearchPlay ==
  /\ lastCall.op \in {"new", "reset"}
  /\ \E r \in {GameMove(G, Opt("e2", "e4"))} :
        /\ SetGame(r.game)
        /\ lastCall' = Call("move", Opt("e2", "e4"), 0, r.result, r.error)
        /\ trail' = Append(trail, Snapshot(G))
  /\ UNCHANGED <<setup, calls>>

(* new MinimaxAI({difficulty}, book) and analyze(game) or getBestMove(game) *)
MinimaxAnalyze ==
  /\ Unasked
  /\ \E legalMoves \in {GetLegalMoves(G)} :
     \E difficulty \in DifficultiesFor(G), deadline \in Deadlines :
     \E searched \in {SearchSorted(MergeConfig(difficulty, deadline), G, legalMoves)} :
     \E book \in DOMAIN Books, draw \in RandomDraws :
     \E bookMove \in {BookMoveFor(Books[book], G, draw)} :
     \E draws \in {draw} \X RandomDraws \X RandomDraws :
     \E r \in {Analysed(MergeConfig(difficulty, deadline), G, legalMoves,
                        bookMove, draws, searched)} :
     \E op \in {"analyze", "getBestMove"} :
        /\ SetGame(r.search.heap[1])
        /\ lastCall' = AiCall(op, AiInput("Minimax", difficulty, deadline, book, draws, NoMove), r)
  /\ UNCHANGED <<trail, setup, calls>>

(* new MinimaxAI({difficulty}).evaluateMove(game, move) for a legal move *)
MinimaxEvaluateMove ==
  /\ Unasked
  /\ \E legalMoves \in {GetLegalMoves(G)} :
     \E i \in 1..Min(2, Len(legalMoves)) :
     \E difficulty \in DifficultiesFor(G), deadline \in Deadlines :
     \E r \in {EvaluateMove(MergeConfig(difficulty, deadline), G, legalMoves[i])} :
        /\ SetGame(r.search.heap[1])
        /\ lastCall' = [op |-> "evaluateMove",
                        input |-> AiInput("Minimax", difficulty, deadline, "none",
                                          <<>>, legalMoves[i]),
                        fixture |-> 0, result |-> legalMoves[i], error |-> "",
                        analysis |-> [evaluation |-> r.evaluation,
                                      search |-> SearchLeft(r.search)]]
  /\ UNCHANGED <<trail, setup, calls>>

(* new RandomAI().analyze(game) or getBestMove(game) *)
RandomAnalyzeCall ==
  /\ Unasked
  /\ \E legalMoves \in {GetLegalMoves(G)} :
     \E draw \in RandomDraws, op \in {"analyze", "getBestMove"} :
     \E r \in {RandomPick(G, legalMoves, draw)} :
        /\ SetGame(r.search.heap[1])
        /\ lastCall' = AiCall(op, AiInput("Random", "none", NoDeadline, "none", <<draw>>, NoMove), r)
  /\ UNCHANGED <<trail, setup, calls>>

SearchNext ==
  \/ \E n \in 1..Len(SearchFens) : SearchLoad(n)
  \/ Reset
  \/ SearchPlay
  \/ MinimaxAnalyze
  \/ MinimaxEvaluateMove
  \/ RandomAnalyzeCall

SearchSpec == Init /\ [][SearchNext]_vars

-----------------------------------------------------------------------------
(* Properties                                                              *)

(* The position was reached from the start position by moves alone *)
FromStartByMoves == setup = 0 /\ calls = Len(moveHistory)

(* The board Game.move leaves when it executes a listed move *)
BoardAfter(g, m) == ExecuteMove(g.board, BuildMove(g, OptionOf(m)))

(* The last call was a move the game accepted *)
Accepted == lastCall.op = "move" /\ lastCall.result # NoMove

(* C1: in every position reached from the start position by moves, each   *)
(* move getLegalMoves() lists leaves the mover's king unattacked once the  *)
(* move is executed, en passant with the captured pawn taken off included. *)
C1_LegalMovesKeepKingSafe ==
  FromStartByMoves =>
    \A m \in SeqToSet(GetLegalMoves(G)) :
       ~IsKingInCheck(BoardAfter(G, m), currentTurn)

(* C2: a successful undo brings back the piece placement and the side to   *)
(* move that held before the move it takes back, whatever kind of move.    *)
C2_UndoRestoresPlacement ==
  [][(lastCall'.op = "undo" /\ lastCall'.result # NoMove) =>
       /\ board' = trail[Len(trail)].board
       /\ currentTurn' = trail[Len(trail)].currentTurn]_vars

(* C3: in a game played from the start position a successful undo brings  *)
(* back the castling rights, the en passant target and both counters that  *)
(* held before the move it takes back, also when earlier moves stay in the *)
(* history.                                                                *)
C3_UndoRestoresGameState ==
  [][(setup = 0 /\ lastCall'.op = "undo" /\ lastCall'.result # NoMove) =>
       /\ castlingRights' = trail[Len(trail)].castlingRights
       /\ enPassantSquare' = trail[Len(trail)].enPassantSquare
       /\ halfMoveClock' = trail[Len(trail)].halfMoveClock
       /\ fullMoveNumber' = trail[Len(trail)].fullMoveNumber]_vars

(* C4: once the game is over, by mate, stalemate or any draw, move()       *)
(* rejects every request and leaves the game as it was.                    *)
C4_NoMoveAfterGameOver ==
  [][(IsGameOver(G) /\ lastCall'.op = "move") =>
       (lastCall'.result = NoMove /\ UNCHANGED gameVars)]_vars

(* The play so far is the beginning of the knight shuffle played thrice *)
OnKnightShuffle == FromStartByMoves /\ 1 \in LinesFollowed

StatusByPriority(g) ==
  LET noMoves == Len(GetLegalMoves(g)) = 0
      inCheck == IsKingInCheck(g.board, g.currentTurn)
  IN IF noMoves /\ inCheck THEN "checkmate"
     ELSE IF noMoves THEN "stalemate"
     ELSE IF g.halfMoveClock >= FiftyMoveLimit THEN "fifty_move_rule"
     ELSE IF Repetitions(g.positionHistory, GetPositionKey(g)) >= 3
     THEN "threefold_repetition"
     ELSE IF IsInsufficientMaterial(g) THEN "insufficient_material"
     ELSE IF inCheck THEN "check"
     ELSE "active"

(* C6: after construction and after every move, undo, loadFen and reset    *)
(* the status is the first condition that holds in the order checkmate,    *)
(* stalemate, fifty-move rule, threefold repetition, insufficient          *)
(* material, check, active, taken from the game as it stands.              *)
C6_StatusByPriority == gameStatus = StatusByPriority(G)

(* A move was accepted that gives check and completes the fifty moves:     *)
(* two conditions hold and the earlier one is the status                   *)
C6_Witness ==
  /\ Accepted
  /\ IsInCheck(G)
  /\ halfMoveClock >= FiftyMoveLimit
  /\ gameStatus = "fifty_move_rule"

(* The pieces of a colour other than its king, as <<type, square>> *)
Material(b, color) ==
  {<<GetPiece(b, sq).type, sq>> :
     sq \in {x \in Squares : GetPiece(b, x).color = color
                             /\ GetPiece(b, x).type # "king"}}

SquareShade(square) ==
  (SquareToCoords(square).row + SquareToCoords(square).col) % 2

(* King v king, king and one minor piece v king, king and bishop v king    *)
(* and bishop with the bishops on squares of one shade                     *)
DrawnMaterial(b) ==
  LET white == Material(b, "white")
      black == Material(b, "black")
  IN \/ white \cup black = {}
     \/ /\ Cardinality(white \cup black) = 1
        /\ \A p \in white \cup black : p[1] \in {"bishop", "knight"}
     \/ /\ Cardinality(white) = 1 /\ Cardinality(black) = 1
        /\ \A p \in white \cup black : p[1] = "bishop"
        /\ \A p \in white : \A q \in black : SquareShade(p[2]) = SquareShade(q[2])

(* C7: material is found insufficient exactly for king v king, king and    *)
(* one bishop or knight v king, and king and bishop v king and bishop with *)
(* the bishops of opposite sides on same-coloured squares.                 *)
C7_InsufficientMaterialSets == IsInsufficientMaterial(G) <=> DrawnMaterial(board)

(* The request is one the rules of validation turn down *)
Rejectable(g, opts) ==
  \/ ~IsValidSquare(opts.from) \/ ~IsValidSquare(opts.to)
  \/ GetPiece(g.board, opts.from) = NoPiece
  \/ GetPiece(g.board, opts.from).color # g.currentTurn
  \/ opts.from = opts.to
  \/ ~\E m \in SeqToSet(GetLegalMoves(g)) : m.from = opts.from /\ m.to = opts.to
  \/ /\ GetPiece(g.board, opts.from).type = "pawn"
     /\ RankNumber(opts.to) = (IF g.currentTurn = "white" THEN 8 ELSE 1)
     /\ opts.promotion = NoPromotion

(* C8: a request with a malformed square, an empty origin, the opponent's  *)
(* piece, equal origin and target, an illegal move or a promotion left out *)
(* returns null and changes neither board, turn, castling rights, en       *)
(* passant target, counters, history, repetition table nor status.         *)
C8_RejectedMoveChangesNothing ==
  [][(lastCall'.op = "move" /\ Rejectable(G, lastCall'.input)) =>
       (lastCall'.result = NoMove /\ UNCHANGED gameVars)]_vars

C8_Witness ==
  /\ lastCall.op = "move"
  /\ lastCall.result = NoMove
  /\ lastCall.error = "Pawn promotion required"

(* The squares strictly between two files of a rank *)
FilesBetween(f1, f2) ==
  {Files[i] : i \in {j \in 1..8 : \E a, z \in 1..8 :
                       /\ Files[a] = f1 /\ Files[z] = f2
                       /\ ((a < j /\ j < z) \/ (z < j /\ j < a))}}

(* What the rules ask of a castling move of the side to move *)
CastlingAllowed(g, side) ==
  LET color == g.currentTurn
      rank == HomeRank(color)
      rookFile == IF side = "kingside" THEN "h" ELSE "a"
      landing == IF side = "kingside" THEN "g" ELSE "c"
      flag == IF color = "white"
              THEN (IF side = "kingside" THEN g.castlingRights.whiteKingside
                    ELSE g.castlingRights.whiteQueenside)
              ELSE (IF side = "kingside" THEN g.castlingRights.blackKingside
                    ELSE g.castlingRights.blackQueenside)
  IN /\ flag
     /\ GetPiece(g.board, SquareOf("e", rank)) = Piece("king", color)
     /\ GetPiece(g.board, SquareOf(rookFile, rank)) = Piece("rook", color)
     /\ \A f \in FilesBetween("e", rookFile) :
          GetPiece(g.board, SquareOf(f, rank)) = NoPiece
     /\ ~IsSquareUnderAttack(g.board, SquareToCoords(SquareOf("e", rank)),
                             Opponent(color))
     /\ \A f \in FilesBetween("e", landing) \cup {landing} :
          ~IsSquareUnderAttack(g.board, SquareToCoords(SquareOf(f, rank)),
                               Opponent(color))

(* C9: a castling move is among the legal moves only if its flag is set,   *)
(* king and rook stand on their home squares, the squares between them are *)
(* empty, the king is not in check, and the square the king crosses and    *)
(* the square it lands on are not attacked.                                *)
C9_CastlingOnlyWhenAllowed ==
  \A m \in SeqToSet(GetLegalMoves(G)) :
     m.castling # NoCastling =>
       /\ m.from = SquareOf("e", HomeRank(currentTurn))
       /\ m.to = SquareOf(IF m.castling = "kingside" THEN "g" ELSE "c",
                          HomeRank(currentTurn))
       /\ CastlingAllowed(G, m.castling)

(* A castling move is among the legal moves *)
C9_Witness ==
  \E m \in SeqToSet(GetLegalMoves(G)) : m.castling = "queenside"

(* The castling flags with the king's home square and the rook's corner *)
CastlingFlags ==
  {<<"whiteKingside", "white", "e1", "h1">>, <<"whiteQueenside", "white", "e1", "a1">>,
   <<"blackKingside", "black", "e8", "h8">>, <<"blackQueenside", "black", "e8", "a8">>}

FlagOf(cr, name) ==
  IF name = "whiteKingside" THEN cr.whiteKingside
  ELSE IF name = "whiteQueenside" THEN cr.whiteQueenside
  ELSE IF name = "blackKingside" THEN cr.blackKingside
  ELSE cr.blackQueenside

(* C10: an accepted move that takes a king off its home square, takes a    *)
(* rook off its home corner, or captures a rook on its home corner leaves  *)
(* the flags concerned false, and no accepted move sets a flag that was    *)
(* false.                                                                  *)
C10_CastlingFlagsOnlyFall ==
  [][(lastCall'.op = "move" /\ lastCall'.result # NoMove) =>
       \A f \in CastlingFlags :
          /\ FlagOf(castlingRights', f[1]) => FlagOf(castlingRights, f[1])
          /\ (/\ GetPiece(board, f[3]) = Piece("king", f[2])
              /\ GetPiece(board', f[3]) # Piece("king", f[2]))
             => ~FlagOf(castlingRights', f[1])
          /\ (/\ GetPiece(board, f[4]) = Piece("rook", f[2])
              /\ GetPiece(board', f[4]) # Piece("rook", f[2]))
             => ~FlagOf(castlingRights', f[1])]_vars

(* A rook was captured on its home corner while its flag was set *)
C10_Witness ==
  /\ Accepted
  /\ lastCall.result.captured = Piece("rook", "white")
  /\ lastCall.result.to = "h1"
  /\ trail[Len(trail)].castlingRights.whiteKingside
  /\ ~castlingRights.whiteKingside

(* The move is a pawn's advance of two squares along its file *)
IsDoubleAdvance(m) ==
  /\ m.piece.type = "pawn"
  /\ SquareToCoords(m.from).col = SquareToCoords(m.to).col
  /\ SquareToCoords(m.to).row - SquareToCoords(m.from).row \in {2, -2}

(* The square between the origin and the target of a double advance *)
PassedOver(m) ==
  CoordsToSquare((SquareToCoords(m.from).row + SquareToCoords(m.to).row) \div 2,
                 SquareToCoords(m.from).col)

(* C11: after an accepted move the en passant target is the square the    *)
(* pawn passed over when the move was a pawn's two-square advance, and     *)
(* null after every other move.                                            *)
C11_EnPassantTargetAfterMove ==
  [][(lastCall'.op = "move" /\ lastCall'.result # NoMove) =>
       enPassantSquare' = IF IsDoubleAdvance(lastCall'.result)
                          THEN PassedOver(lastCall'.result)
                          ELSE NoSquare]_vars

(* A double advance set the target e3, and the single step that answered  *)
(* it cleared the target again                                             *)
C11_Witness ==
  /\ Accepted
  /\ Len(moveHistory) = 2
  /\ IsDoubleAdvance(moveHistory[1])
  /\ trail[2].enPassantSquare = "e3"
  /\ ~IsDoubleAdvance(lastCall.result)
  /\ enPassantSquare = NoSquare

(* The listed move takes a pawn onto the rank farthest from its side *)
ReachesFarRank(m) ==
  /\ m.piece.type = "pawn"
  /\ RankNumber(m.to) = (IF m.piece.color = "white" THEN 8 ELSE 1)

(* The places in the list of the moves with the squares of m, and of those *)
(* the ones promoting to t                                                 *)
SameSquares(legal, m) ==
  {j \in 1..Len(legal) : legal[j].from = m.from /\ legal[j].to = m.to}

PromotingTo(legal, m, t) ==
  {j \in SameSquares(legal, m) : legal[j].promotion = t}

(* What move() answers when the promotion is left out of the request *)
WithoutPromotion(g, m) == GameMove(g, Opt(m.from, m.to))

(* C12: a pawn move onto the far rank, push or capture, is listed as       *)
(* exactly four moves, one for each of queen, rook, bishop and knight, and *)
(* never without a promotion; asked for without a promotion piece it is    *)
(* rejected with 'Pawn promotion required'.                                *)
C12_PromotionListedFourfold ==
  \A m \in SeqToSet(GetLegalMoves(G)) :
     ReachesFarRank(m) =>
       /\ Cardinality(SameSquares(GetLegalMoves(G), m)) = 4
       /\ \A t \in SeqToSet(PromotionTypes) :
            Cardinality(PromotingTo(GetLegalMoves(G), m, t)) = 1
       /\ WithoutPromotion(G, m).result = NoMove
       /\ WithoutPromotion(G, m).error = "Pawn promotion required"

(* The pawn on a7 may advance to a8 or capture on b8, and the capture was  *)
(* asked for without a promotion piece                                     *)
C12_Witness ==
  /\ \E m \in SeqToSet(GetLegalMoves(G)) :
        ReachesFarRank(m) /\ m.captured = NoPiece
  /\ \E m \in SeqToSet(GetLegalMoves(G)) :
        ReachesFarRank(m) /\ m.captured # NoPiece /\ OptionOf(m) # lastCall.input
                          /\ Opt(m.from, m.to) = lastCall.input
  /\ lastCall.op = "move"
  /\ lastCall.result = NoMove

(* The number of pieces standing on a board *)
PieceCount(b) == Cardinality({sq \in Squares : GetPiece(b, sq) # NoPiece})

(* C13: after an accepted move the half-move clock is 0 when a pawn moved  *)
(* or a piece left the board (en passant included) and one more than       *)
(* before otherwise; the full-move number is one more after a move of      *)
(* Black and unchanged after a move of White.                              *)
C13_CountersAfterMove ==
  [][(lastCall'.op = "move" /\ lastCall'.result # NoMove) =>
       /\ halfMoveClock' =
            IF \/ GetPiece(board, lastCall'.input.from).type = "pawn"
               \/ PieceCount(board') < PieceCount(board)
            THEN 0 ELSE halfMoveClock + 1
       /\ fullMoveNumber' =
            IF currentTurn = "black" THEN fullMoveNumber + 1 ELSE fullMoveNumber]_vars

(* Black's king move raised the clock to 1 and the full-move number to 2, *)
(* and White's rook then captured: the clock is 0, the number still 2      *)
C13_Witness ==
  /\ Accepted
  /\ Len(trail) = 2
  /\ lastCall.result.piece = Piece("rook", "white")
  /\ lastCall.result.captured # NoPiece
  /\ trail[1].halfMoveClock = 0 /\ trail[1].fullMoveNumber = 1
  /\ trail[2].halfMoveClock = 1 /\ trail[2].fullMoveNumber = 2
  /\ halfMoveClock = 0
  /\ fullMoveNumber = 2

(* The six fields of the game are those of the position given *)
HoldsPosition(position) ==
  /\ board = position.board
  /\ currentTurn = position.turn
  /\ castlingRights = position.castlingRights
  /\ enPassantSquare = position.enPassantSquare
  /\ halfMoveClock = position.halfMoveClock
  /\ fullMoveNumber = position.fullMoveNumber

(* The history is empty and the table holds the position once, alone *)
FreshHistory ==
  /\ moveHistory = <<>>
  /\ DOMAIN positionHistory = {GetPositionKey(G)}
  /\ positionHistory[GetPositionKey(G)] = 1

(* The standard start position, read off its FEN by hand *)
StandardStart ==
  FenData("rnbqkbnr/pppppppp/8/8/8/8/PPPPPPPP/RNBQKBNR w KQkq - 0 1",
          {<<SquareOf(Files[c], 1), BackRank[c], "white">> : c \in 1..8}
          \cup {<<SquareOf(Files[c], 2), "pawn", "white">> : c \in 1..8}
          \cup {<<SquareOf(Files[c], 7), "pawn", "black">> : c \in 1..8}
          \cup {<<SquareOf(Files[c], 8), BackRank[c], "black">> : c \in 1..8},
          "white", Rights(TRUE, TRUE, TRUE, TRUE), NoSquare, 0, 1)

(* C20: after loadFen the board, the turn, the castling rights, the en     *)
(* passant target and both counters are those the FEN text states, the     *)
(* history is empty and the repetition table holds the loaded position     *)
(* alone with count 1; after reset the same holds for the standard start   *)
(* position.                                                               *)
C20_LoadFenAndResetReplaceAll ==
  /\ lastCall.op = "loadFen" =>
       HoldsPosition(Fixtures[lastCall.fixture]) /\ FreshHistory
  /\ lastCall.op = "reset" => HoldsPosition(StandardStart) /\ FreshHistory

(* The fourth position, with its clock at 99 and its move number at 60,    *)
(* was loaded                                                              *)
C20_Witness ==
  /\ lastCall.op = "loadFen"
  /\ lastCall.fixture = 4
  /\ Fixtures[4].fen = "4k3/8/8/8/8/8/8/R3K3 w - - 99 60"
  /\ halfMoveClock = 99
  /\ fullMoveNumber = 60
  /\ GetPiece(board, "a1") = Piece("rook", "white")


(* The last call asked the minimax engine for its analysis *)
MinimaxAnalysed ==
  lastCall.op \in {"analyze", "getBestMove"} /\ lastCall.input.engine = "Minimax"

(* The notation Game.move would give one of the game's legal moves is the  *)
(* notation the book has answered with                                     *)
NamesLegalMove(g, legalMoves, bookMove) ==
  \E i \in 1..Len(legalMoves) : MoveSan(g, legalMoves[i]) = bookMove.move

BookAnswer == GetMove(Books[lastCall.input.book], G, lastCall.input.draws[1])

(* C14: when the engine has an enabled book attached, fewer plies than the *)
(* book's maxDepth have been played and the book answers with a move that  *)
(* is legal in the position, analyze returns that move at search depth 0   *)
(* and no tree search takes place.                                         *)
C14_BookMoveReturnedAtDepthZero ==
  (/\ MinimaxAnalysed /\ lastCall.op = "analyze"
   /\ lastCall.input.book = "default"
   /\ Len(moveHistory) < Books.default.config.maxDepth
   /\ BookAnswer # NoOpeningMove
   /\ NamesLegalMove(G, GetLegalMoves(G), BookAnswer))
  => /\ lastCall.error = ""
     /\ lastCall.analysis.depth = 0
     /\ MoveSan(G, lastCall.analysis.bestMove) = BookAnswer.move
     /\ lastCall.analysis.search.nodesEvaluated = 0
     /\ lastCall.analysis.search.clones = 0


(* The last call ran the minimax search *)
MinimaxCalled ==
  lastCall.op \in {"analyze", "getBestMove", "evaluateMove"}
  /\ lastCall.input.engine = "Minimax"

DrawnStatuses ==
  {"stalemate", "draw", "fifty_move_rule", "threefold_repetition",
   "insufficient_material"}

(* C15: every node of the search whose game reports a stalemate or a draw  *)
(* (fifty-move rule, threefold repetition, insufficient material) is       *)
(* scored exactly 0.                                                       *)
C15_DrawnNodesScoreZero ==
  MinimaxCalled =>
    \A i \in 1..Len(lastCall.analysis.search.visited) :
       lastCall.analysis.search.visited[i][1] \in DrawnStatuses
       => lastCall.analysis.search.visited[i][2] = 0


(* C16: when the side to move has exactly one legal move, analyze returns  *)
(* that move and no node of the recursive search is evaluated, whatever    *)
(* the configured depth.                                                   *)
C16_SingleMoveWithoutSearch ==
  (MinimaxAnalysed /\ Len(GetLegalMoves(G)) = 1)
  => /\ lastCall.error = ""
     /\ lastCall.result = GetLegalMoves(G)[1]
     /\ lastCall.analysis.depth = 0
     /\ lastCall.analysis.search.nodesEvaluated = 0
     /\ lastCall.analysis.search.visited = <<>>
     /\ lastCall.analysis.search.clones = 0

C16_Witness ==
  /\ MinimaxAnalysed /\ lastCall.op = "analyze"
  /\ lastCall.input.difficulty = "medium"
  /\ lastCall.input.deadline = NoDeadline
  /\ Len(GetLegalMoves(G)) = 1
  /\ lastCall.result = GetLegalMoves(G)[1]


(* The last call asked one of the two engines for a move or an analysis *)
EngineAsked == lastCall.op \in {"analyze", "getBestMove"}

(* C17: when the side to move has no legal move, getBestMove and analyze   *)
(* of MinimaxAI and of RandomAI fail with 'No legal moves available' and   *)
(* return no move.                                                         *)
C17_NoLegalMovesIsAnError ==
  (EngineAsked /\ Len(GetLegalMoves(G)) = 0)
  => /\ lastCall.error = "No legal moves available"
     /\ lastCall.result = NoMove

C17_Witness ==
  /\ EngineAsked /\ lastCall.input.engine = "Random"
  /\ gameStatus = "stalemate"
  /\ Len(GetLegalMoves(G)) = 0
  /\ lastCall.error = "No legal moves available"


(* The step is a call of analyze, getBestMove or evaluateMove of MinimaxAI *)
MinimaxStep ==
  /\ lastCall'.op \in {"analyze", "getBestMove", "evaluateMove"}
  /\ lastCall'.input.engine = "Minimax"

(* The games the search has made moves on are clones, each moved on once *)
BranchesApart(moved) ==
  /\ \A i \in 1..Len(moved) : moved[i] # 1
  /\ \A i, j \in 1..Len(moved) : i # j => moved[i] # moved[j]

(* C18: analyze, getBestMove and evaluateMove of MinimaxAI leave the game  *)
(* passed in as it was (board, turn, castling rights, en passant target,   *)
(* counters, move history, repetition table, status), and no two branches  *)
(* of the search make their moves on the same game object.                 *)
C18_SearchLeavesGameUntouched ==
  [][MinimaxStep =>
       /\ UNCHANGED gameVars
       /\ BranchesApart(lastCall'.analysis.search.moved)
       /\ lastCall'.analysis.search.clones = Len(lastCall'.analysis.search.moved)]_vars

C18_Witness ==
  /\ lastCall.op = "analyze" /\ lastCall.input.engine = "Minimax"
  /\ Len(moveHistory) = 1
  /\ Len(lastCall.analysis.search.moved) >= 20
  /\ BranchesApart(lastCall.analysis.search.moved)
  /\ G = lastCall.analysis.search.root


(* The last call was analyze with no book, no time cutoff and no random    *)
(* choice among the top moves, at a configured depth above one             *)
SearchedToDepth ==
  /\ lastCall.op = "analyze" /\ lastCall.input.engine = "Minimax"
  /\ lastCall.input.book = "none"
  /\ lastCall.input.deadline = NoDeadline
  /\ lastCall.input.draws = <<0, 99, 0>>
  /\ lastCall.error = ""
  /\ DIFFICULTY_CONFIGS[lastCall.input.difficulty].maxDepth > 1

(* nodesEvaluated of analyze on the same game one ply shallower *)
NodesOnePlyShallower ==
  Analyze([maxDepth |-> DIFFICULTY_CONFIGS[lastCall.input.difficulty].maxDepth - 1,
           randomness |-> 0, deadline |-> NoDeadline],
          NoBook, G, <<0, 99, 0>>).nodesEvaluated

AtStandardStart ==
  /\ board = StandardStart.board
  /\ currentTurn = "white"
  /\ castlingRights = StandardStart.castlingRights
  /\ enPassantSquare = NoSquare

(* C21: in the standard start position each side has exactly 20 legal      *)
(* moves, and the legal moves from e2 are exactly the pushes to e3 and e4. *)
C21_StartPositionMoves ==
  AtStandardStart =>
    /\ Len(GenerateLegalMoves(board, castlingRights, enPassantSquare, "white")) = 20
    /\ Len(GenerateLegalMoves(board, castlingRights, enPassantSquare, "black")) = 20
    /\ Len(GenerateLegalMovesFrom(board, castlingRights, enPassantSquare,
                                  "e2", currentTurn)) = 2
    /\ {m.to : m \in SeqToSet(GenerateLegalMovesFrom(board, castlingRights,
                                                     enPassantSquare, "e2",
                                                     currentTurn))} = {"e3", "e4"}

C21_Witness ==
  /\ AtStandardStart
  /\ lastCall.op = "undo" /\ lastCall.result # NoMove
  /\ Len(GetLegalMoves(G)) = 20


(* The en passant capture from a square as the rules allow it: the target *)
(* is set, a pawn of the side to move stands diagonally behind it, and    *)
(* with the pawn on the target and the passed pawn taken off the board    *)
(* the mover's king is not attacked                                       *)
EnPassantAllowedFrom(from) ==
  LET target == SquareToCoords(enPassantSquare)
      origin == SquareToCoords(from)
      direction == IF currentTurn = "white" THEN 1 ELSE -1
      taken == CoordsToSquare(target.row - direction, target.col)
      after == SetPiece(MovePiece(board, from, enPassantSquare), taken, NoPiece)
  IN /\ enPassantSquare # NoSquare
     /\ GetPiece(board, from) = Piece("pawn", currentTurn)
     /\ target.row = origin.row + direction
     /\ target.col - origin.col \in {-1, 1}
     /\ ~IsKingInCheck(after, currentTurn)

EnPassantOffered(legal, from) ==
  \E i \in 1..Len(legal) :
    legal[i].from = from /\ legal[i].to = enPassantSquare /\ legal[i].enPassant

(* C22: every en passant capture the rules allow is in getLegalMoves(),   *)
(* and the status is never checkmate or stalemate while one exists.       *)
C22_EnPassantAlwaysOffered ==
  enPassantSquare # NoSquare =>
    \A from \in {sq \in Squares : EnPassantAllowedFrom(sq)} :
      /\ EnPassantOffered(GetLegalMoves(G), from)
      /\ gameStatus \notin {"checkmate", "stalemate"}

(* An allowed capture exists and is offered *)
C22_Offered ==
  /\ enPassantSquare # NoSquare
  /\ \E from \in Squares :
       EnPassantAllowedFrom(from) /\ EnPassantOffered(GetLegalMoves(G), from)


(* C23: for a game whose starting state was set by loadFen, undoing every *)
(* move played since the load restores exactly the loaded castling flags, *)
(* en-passant target, half-move clock and full-move number.               *)
C23_UndoToLoadedState ==
  (/\ setup # 0
   /\ lastCall.op = "undo" /\ lastCall.result # NoMove
   /\ moveHistory = <<>>) =>
    /\ castlingRights = Fixtures[setup].castlingRights
    /\ enPassantSquare = Fixtures[setup].enPassantSquare
    /\ halfMoveClock = Fixtures[setup].halfMoveClock
    /\ fullMoveNumber = Fixtures[setup].fullMoveNumber


(* The occurrences of the current position in the line of play: the      *)
(* position the line started from, the positions after the moves still in *)
(* the history, the current position among them                           *)
OccurrencesInLine ==
  1 + Cardinality({i \in 1..Len(trail) : GetPositionKey(trail[i]) = GetPositionKey(G)})

(* C24: threefold_repetition is reported only when the current position   *)
(* has occurred at least three times in the current line of play;         *)
(* positions reached by moves that were later undone do not count.        *)
C24_ThreefoldCountsLineOnly ==
  gameStatus = "threefold_repetition" => OccurrencesInLine >= 3


KingsOf(color) == {sq \in Squares : GetPiece(board, sq) = Piece("king", color)}

(* C25: in every state reached from the start position through move and   *)
(* undo the board holds exactly one white king and exactly one black king, *)
(* and no accepted move captures a king.                                   *)
C25_KingsStayOnBoard ==
  setup = 0 =>
    /\ Cardinality(KingsOf("white")) = 1
    /\ Cardinality(KingsOf("black")) = 1
    /\ Accepted => lastCall.result.captured.type # "king"


(* The last call was an accepted en passant capture *)
EnPassantPlayed == Accepted /\ lastCall.result.enPassant

(* The square one rank behind a square, from the view of the given colour *)
RankBehind(square, color) ==
  CoordsToSquare(SquareToCoords(square).row - (IF color = "white" THEN 1 ELSE -1),
                 SquareToCoords(square).col)

(* The offer: every en passant move listed starts on a pawn of the side   *)
(* to move one rank behind the target and on a neighbouring file          *)
EnPassantOfferedFromBehind ==
  \A m \in {x \in SeqToSet(GetLegalMoves(G)) : x.enPassant} :
    /\ m.to = enPassantSquare
    /\ GetPiece(board, m.from) = Piece("pawn", currentTurn)
    /\ SquareToCoords(m.from).row = SquareToCoords(RankBehind(m.to, currentTurn)).row
    /\ SquareToCoords(m.from).col - SquareToCoords(m.to).col \in {-1, 1}

(* The execution: the pawn stands on the target, its square of origin and *)
(* the square behind the target are empty, and nothing else has changed   *)
EnPassantExecuted ==
  EnPassantPlayed =>
    LET m == lastCall.result
        before == trail[Len(trail)]
        behind == RankBehind(m.to, m.piece.color)
    IN /\ m.to = before.enPassantSquare
       /\ GetPiece(before.board, behind) = Piece("pawn", Opponent(m.piece.color))
       /\ GetPiece(before.board, m.to) = NoPiece
       /\ GetPiece(board, m.to) = Piece("pawn", m.piece.color)
       /\ GetPiece(board, m.from) = NoPiece
       /\ GetPiece(board, behind) = NoPiece
       /\ \A sq \in Squares \ {m.from, m.to, behind} :
            GetPiece(board, sq) = GetPiece(before.board, sq)

ChildGame(game, move) ==
  GameMove(GameLoadFenText(NewGame, GetFen(game)), OptionOf(move)).game

MaxOf(scores) == CHOOSE x \in scores : \A y \in scores : y <= x
MinOf(scores) == CHOOSE x \in scores : \A y \in scores : x <= y
BestOf(scores, maximizingPlayer) ==
  IF maximizingPlayer THEN MaxOf(scores) ELSE MinOf(scores)

RECURSIVE PlainMinimax(_, _, _, _)
PlainChildren(config, game, depth, maximizingPlayer, legalMoves) ==
  IF Len(legalMoves) = 0 THEN 0
  ELSE BestOf({PlainMinimax(config, ChildGame(game, legalMoves[i]), depth - 1,
                            ~maximizingPlayer) : i \in 1..Len(legalMoves)},
              maximizingPlayer)

PlainMinimax(config, game, depth, maximizingPlayer) ==
  IF game.gameStatus = "checkmate" THEN MateScore(config, depth, maximizingPlayer)
  ELSE IF game.gameStatus \in {"stalemate", "draw"} THEN 0
  ELSE IF depth = 0 THEN EvaluateBoard(game.board, "white")
  ELSE PlainChildren(config, game, depth, maximizingPlayer, GetLegalMoves(game))

(* The score plain minimax assigns to a root move at the depth configured *)
PlainScore(config, game, move) ==
  PlainMinimax(config, ChildGame(game, move), config.maxDepth - 1,
               game.currentTurn # "white")

(* Calls of the alpha-beta search with no time cutoff; of the calls of    *)
(* analyze, which differ in the book and the draws only, the one without  *)
(* book whose draws pick the first of the sorted moves                    *)
UncutEvaluateMove ==
  /\ lastCall.op = "evaluateMove"
  /\ lastCall.input.deadline = NoDeadline

UncutAnalyze ==
  /\ lastCall.op = "analyze" /\ lastCall.input.engine = "Minimax"
  /\ lastCall.input.deadline = NoDeadline
  /\ lastCall.input.book = "none"
  /\ lastCall.input.draws = <<99, 99, 99>>
  /\ lastCall.analysis.topMoves # <<>>

RootScoresArePlain(config, legalMoves, plain) ==
  /\ \A k \in 1..Len(lastCall.analysis.topMoves) :
       \E i \in 1..Len(legalMoves) :
         /\ legalMoves[i] = lastCall.analysis.topMoves[k].move
         /\ plain[i] = lastCall.analysis.topMoves[k].score
  /\ \E i \in 1..Len(legalMoves) :
       /\ legalMoves[i] = lastCall.analysis.bestMove
       /\ plain[i] = BestOf({plain[j] : j \in 1..Len(legalMoves)},
                            currentTurn = "white")
       /\ plain[i] = lastCall.analysis.score

PlainScores(config, legalMoves) ==
  [i \in 1..Len(legalMoves) |-> PlainScore(config, G, legalMoves[i])]

RootScoresPlainFor(config, legalMoves) ==
  RootScoresArePlain(config, legalMoves, PlainScores(config, legalMoves))

(* C27: with no time cutoff the score the alpha-beta search assigns to    *)
(* each root move equals the score of plain minimax without pruning at    *)
(* the same depth, so the move chosen as best is a best move of plain     *)
(* minimax.                                                               *)
C27_AlphaBetaEqualsMinimax ==
  /\ UncutEvaluateMove =>
       lastCall.analysis.evaluation.score
         = PlainScore(MergeConfig(lastCall.input.difficulty, NoDeadline), G,
                      lastCall.input.move)
  /\ UncutAnalyze =>
       RootScoresPlainFor(MergeConfig(lastCall.input.difficulty, NoDeadline),
                          GetLegalMoves(G))

(* A search of depth three or more in which branches were cut off *)
C27_Witness ==
  /\ UncutAnalyze
  /\ lastCall.input.difficulty \in {"medium", "hard"}
  /\ lastCall.analysis.search.pruneCount > 0
  /\ Len(lastCall.analysis.topMoves) >= 3


(* The root moves the search has scored, with their scores: the list      *)
(* returned holds them all unless it was cut to five, and then they are   *)
(* the moves of the root loop                                             *)
RootScored(config, legalMoves) ==
  IF Len(lastCall.analysis.topMoves) < 5 \/ Len(legalMoves) <= 5
  THEN lastCall.analysis.topMoves
  ELSE EvaluateMoves(config, NewSearch(G), legalMoves, 1, currentTurn = "white",
                     <<>>).evaluations

(* The root-scored moves that score better than the given move for the    *)
(* side to move                                                           *)
BetterScored(scored, move) ==
  {j \in 1..Len(scored) :
     \E k \in 1..Len(scored) :
       /\ scored[k].move = move
       /\ IF currentTurn = "white" THEN scored[j].score > scored[k].score
          ELSE scored[j].score < scored[k].score}

(* Math.random() < randomness for the second draw *)
RandomnessTriggers ==
  lastCall.input.draws[2] < DIFFICULTY_CONFIGS[lastCall.input.difficulty].randomness

BestOfRootScored(scored, legalMoves) ==
  /\ \E k \in 1..Len(scored) : scored[k].move = lastCall.analysis.bestMove
  /\ \A k \in 1..Len(scored) : \E i \in 1..Len(legalMoves) : legalMoves[i] = scored[k].move
  /\ Cardinality(BetterScored(scored, lastCall.analysis.bestMove))
       <= (IF RandomnessTriggers THEN 2 ELSE 0)
  /\ ~RandomnessTriggers => lastCall.analysis.bestMove = lastCall.analysis.topMoves[1].move
  /\ RandomnessTriggers =>
       \E k \in 1..Min(3, Len(lastCall.analysis.topMoves)) :
         lastCall.analysis.bestMove = lastCall.analysis.topMoves[k].move

(* The draws after the book's: the second triggers the random choice and *)
(* the third picks the first, second or third move, or the second does    *)
(* not trigger                                                            *)
ChoiceDraws == {<<0, 0, 0>>, <<0, 0, 50>>, <<0, 0, 99>>, <<0, 99, 99>>}

(* The calls of analyze looked at: all of them where the list returned    *)
(* holds every root-scored move, and where it was cut to five those       *)
(* without book and with one of the ChoiceDraws                           *)
RootScoresKnown(legalMoves) ==
  \/ Len(lastCall.analysis.topMoves) < 5
  \/ Len(legalMoves) <= 5
  \/ /\ lastCall.input.book = "none" /\ lastCall.op = "analyze"
     /\ lastCall.input.draws \in ChoiceDraws

ReturnsBestRootScored(config, legalMoves) ==
  /\ \E i \in 1..Len(legalMoves) : legalMoves[i] = lastCall.analysis.bestMove
  /\ (lastCall.analysis.topMoves # <<>> /\ RootScoresKnown(legalMoves)) =>
       BestOfRootScored(RootScored(config, legalMoves), legalMoves)

(* C28: MinimaxAI.analyze returns a move that is legal in the root        *)
(* position: one of the three best root-scored moves when the randomness  *)
(* draw triggers, otherwise the single best root-scored move, highest for *)
(* White to move and lowest for Black to move.                            *)
C28_AnalyzeReturnsBestLegalMove ==
  (MinimaxAnalysed /\ lastCall.error = "") =>
    ReturnsBestRootScored(MergeConfig(lastCall.input.difficulty, lastCall.input.deadline),
                          GetLegalMoves(G))

(* The draw triggers and the move returned is not the best-scored one *)
C28_Witness ==
  /\ MinimaxAnalysed /\ lastCall.error = ""
  /\ RandomnessTriggers
  /\ Len(lastCall.analysis.topMoves) >= 3
  /\ lastCall.analysis.bestMove = lastCall.analysis.topMoves[3].move
  /\ currentTurn = "black"


----------------------------------------------------------------------------
(* The evaluation functions called on boards set up piece by piece: a new *)
(* Board, the two kings and any of the optional men, or the start         *)
(* position.  The Game's other fields play no part and keep the values of *)
(* a new game.                                                            *)

Kings == {<<"e1", "king", "white">>, <<"e8", "king", "black">>}

OptionalMen ==
  {<<"d1", "queen", "white">>, <<"a1", "rook", "white">>,
   <<"c1", "bishop", "white">>, <<"b1", "knight", "white">>,
   <<"e4", "pawn", "white">>,
   <<"d8", "queen", "black">>, <<"a8", "rook", "black">>,
   <<"c8", "bishop", "black">>, <<"g8", "knight", "black">>}

EvaluatedBoards ==
  {BoardOf(Kings \cup men) : men \in SUBSET OptionalMen} \cup {NewGame.board}

EvalCall(op, color, result) ==
  [op |-> op, input |-> color, fixture |-> 0, result |-> result, error |-> ""]

EvalInit ==
  /\ board \in EvaluatedBoards
  /\ currentTurn = NewGame.currentTurn
  /\ moveHistory = NewGame.moveHistory
  /\ castlingRights = NewGame.castlingRights
  /\ enPassantSquare = NewGame.enPassantSquare
  /\ halfMoveClock = NewGame.halfMoveClock
  /\ fullMoveNumber = NewGame.fullMoveNumber
  /\ gameStatus = NewGame.gameStatus
  /\ positionHistory = EmptyTable
  /\ lastCall = EvalCall("new", "none", 0)
  /\ trail = <<>>
  /\ setup = 0
  /\ calls = 0

(* isEndgame(board) *)
IsEndgameCall ==
  /\ lastCall' = EvalCall("isEndgame", "none", IsEndgame(board))
  /\ UNCHANGED <<gameVars, trail, setup, calls>>

(* evaluateBoard(board, color) *)
EvaluateBoardCall(color) ==
  /\ lastCall' = EvalCall("evaluateBoard", color, EvaluateBoard(board, color))
  /\ UNCHANGED <<gameVars, trail, setup, calls>>

EvalNext ==
  \/ IsEndgameCall
  \/ \E color \in {"white", "black"} : EvaluateBoardCall(color)

EvalSpec == EvalInit /\ [][EvalNext]_vars

(* The rooks, bishops and knights of a side, and whether it has a queen *)
MenOf(color, types) ==
  Cardinality({sq \in Squares : /\ GetPiece(board, sq).color = color
                                /\ GetPiece(board, sq).type \in types})

HasQueen(color) == MenOf(color, {"queen"}) > 0

(* C29: isEndgame(board) is true exactly when no queen remains on either  *)
(* side, or every side that still has a queen has at most one other rook  *)
(* or minor piece; in every other case it is false.                       *)
C29_EndgameRule ==
  lastCall.op = "isEndgame" =>
    (lastCall.result <=>
       \/ ~HasQueen("white") /\ ~HasQueen("black")
       \/ \A color \in {"white", "black"} :
            HasQueen(color) => MenOf(color, {"rook", "bishop", "knight"}) <= 1)

(* C30: for every board, evaluateBoard(board, 'black') is the negation of *)
(* evaluateBoard(board, 'white').                                         *)
C30_BlackScoreNegatesWhiteScore ==
  (lastCall.op = "evaluateBoard" /\ lastCall.input = "black") =>
    lastCall.result = -EvaluateBoard(board, "white")

=============================================================================
